---------------------------- MODULE Spec2Model ----------------------------
(***************************************************************************)
(* InferenceStore: a record-and-replay caching proxy for a KServe v2       *)
(* inference service.  The module models the request fingerprint           *)
(* (ProcessedInput), the match relation, the entry codec, the generic      *)
(* CacheStore and the gRPC dispatcher (unary ModelInfer, ModelConfig and   *)
(* the ModelStreamInfer worker).                                           *)
(*                                                                         *)
(* Conventions.  Strings of the program are TLA+ strings; Utf8 gives their *)
(* bytes.  A Blake2 digest is idealised as collision free: a digest is     *)
(* represented by the byte sequence that was fed to the hasher, so two     *)
(* digests are equal exactly when the concatenated feeds are equal.        *)
(* Scalars are hashed in the byte order of a little-endian build.          *)
(***************************************************************************)
EXTENDS Integers, Sequences, FiniteSets, TLC

(***************************************************************************)
(* Bounds of the model.                                                    *)
(***************************************************************************)
NumTasks == 2
MaxRequests == 2
MaxStreamLen == 2
MaxInitFiles == 1
MaxCalls == 2
MaxFindCalls == 4

\* mpsc::channel(4) of model_stream_infer.
ChannelCapacity == 4

(***************************************************************************)
(* Bytes and strings.                                                      *)
(***************************************************************************)
Utf8(s) ==
  CASE s = "" -> <<>>
    [] s = "m" -> <<109>>
    [] s = "n" -> <<110>>
    [] s = "1" -> <<49>>
    [] s = "2" -> <<50>>
    [] s = "r1" -> <<114, 49>>
    [] s = "r2" -> <<114, 50>>
    [] s = "r3" -> <<114, 51>>
    [] s = "r4" -> <<114, 52>>
    [] s = "r5" -> <<114, 53>>
    [] s = "j" -> <<106>>
    [] s = "k" -> <<107>>
    [] s = "a" -> <<97>>
    [] s = "b" -> <<98>>
    [] s = "o" -> <<111>>
    [] s = "p" -> <<112>>
    [] s = "img" -> <<105, 109, 103>>
    [] s = "FP32" -> <<70, 80, 51, 50>>
    [] s = "INT64" -> <<73, 78, 84, 54, 52>>

RECURSIVE Concat(_)
Concat(chunks) ==
  IF chunks = <<>> THEN <<>> ELSE Head(chunks) \o Concat(Tail(chunks))

\* i64::to_le_bytes / u64::to_ne_bytes on a little-endian build, for |n| < 2^23.
LeBytes8(n) ==
  LET low == IF n < 0 THEN n + 16777216 ELSE n
      ext == IF n < 0 THEN 255 ELSE 0
  IN  << low % 256, (low \div 256) % 256, (low \div 65536) % 256,
         ext, ext, ext, ext, ext >>

\* f64::to_ne_bytes of the doubles the model uses, named by their decimal text.
DoubleBytes(d) ==
  CASE d = "0.0" -> <<0, 0, 0, 0, 0, 0, 0, 0>>
    [] d = "1.5" -> <<0, 0, 0, 0, 0, 0, 248, 63>>

\* Bytewise lexicographic order of two byte sequences (String's Ord).
RECURSIVE BytesLess(_, _)
BytesLess(x, y) ==
  IF y = <<>> THEN FALSE
  ELSE IF x = <<>> THEN TRUE
  ELSE IF Head(x) # Head(y) THEN Head(x) < Head(y)
  ELSE BytesLess(Tail(x), Tail(y))

\* The keys of a BTreeMap<String, _> in iteration order.
RECURSIVE SortedKeys(_)
SortedKeys(ks) ==
  IF ks = {} THEN <<>>
  ELSE LET least == CHOOSE k \in ks :
                      \A o \in ks \ {k} : BytesLess(Utf8(k), Utf8(o))
       IN  <<least>> \o SortedKeys(ks \ {least})

(***************************************************************************)
(* Parameter: the five-way scalar of the wire protocol, and its absence.   *)
(* t is the variant, n the numeric payload (Bool as 0/1), s the textual    *)
(* payload (a String's text, a Double's decimal text).                     *)
(***************************************************************************)
NoParam == [t |-> "None", n |-> 0, s |-> ""]
BoolParam(b) == [t |-> "Bool", n |-> IF b THEN 1 ELSE 0, s |-> ""]
Int64Param(v) == [t |-> "Int64", n |-> v, s |-> ""]
StringParam(v) == [t |-> "String", n |-> 0, s |-> v]
DoubleParam(d) == [t |-> "Double", n |-> 0, s |-> d]
Uint64Param(v) == [t |-> "Uint64", n |-> v, s |-> ""]

\* Parameter::as_bytes
as_bytes(p) ==
  LET type_byte == CASE p.t = "Bool" -> 1
                     [] p.t = "Int64" -> 2
                     [] p.t = "String" -> 3
                     [] p.t = "Double" -> 4
                     [] p.t = "Uint64" -> 5
      value_bytes == CASE p.t = "Bool" -> <<p.n>>
                       [] p.t = "Int64" -> LeBytes8(p.n)
                       [] p.t = "String" -> Utf8(p.s)
                       [] p.t = "Double" -> DoubleBytes(p.s)
                       [] p.t = "Uint64" -> LeBytes8(p.n)
  IN  <<type_byte>> \o value_bytes

\* A feed that leaves out the key as well when the value is absent.
RECURSIVE ParamFeedSeqEliding(_, _)
ParamFeedSeqEliding(m, ks) ==
  IF ks = <<>> THEN <<>>
  ELSE (IF m[Head(ks)].t # "None"
        THEN Utf8(Head(ks)) \o as_bytes(m[Head(ks)]) ELSE <<>>)
         \o ParamFeedSeqEliding(m, Tail(ks))

\* The hasher feed of one parameter map: per key in order, the key and, when
\* the value is present, the value's bytes.
RECURSIVE ParamFeedSeq(_, _)
ParamFeedSeq(m, ks) ==
  IF ks = <<>> THEN <<>>
  ELSE Utf8(Head(ks))
         \o (IF m[Head(ks)].t # "None" THEN as_bytes(m[Head(ks)]) ELSE <<>>)
         \o ParamFeedSeq(m, Tail(ks))

ParamFeed(m) == ParamFeedSeq(m, SortedKeys(DOMAIN m))


(***************************************************************************)
(* Wire messages.  A protobuf map<string, InferParameter> is a sequence of *)
(* [key, value] entries with distinct keys, in the order the HashMap       *)
(* yields them; an InferParameter is its parameter_choice.                 *)
(***************************************************************************)
InferParameter(choice) == [parameter_choice |-> choice]

\* Parameter::from_infer_parameter
from_infer_parameter(parameter) ==
  LET p == parameter.parameter_choice
  IN  CASE p.t = "None" -> NoParam
        [] p.t = "Bool" -> BoolParam(p.n = 1)
        [] p.t = "Int64" -> Int64Param(p.n)
        [] p.t = "String" -> StringParam(p.s)
        [] p.t = "Double" -> DoubleParam(p.s)
        [] p.t = "Uint64" -> Uint64Param(p.n)

\* Parameter::to_infer_parameter, and InferParameter::default() for None
\* (the match of ProcessedOutput::to_response).
to_infer_parameter(p) ==
  CASE p.t = "None" -> InferParameter(NoParam)
    [] p.t = "Bool" -> InferParameter(BoolParam(p.n = 1))
    [] p.t = "Int64" -> InferParameter(Int64Param(p.n))
    [] p.t = "String" -> InferParameter(StringParam(p.s))
    [] p.t = "Double" -> InferParameter(DoubleParam(p.s))
    [] p.t = "Uint64" -> InferParameter(Uint64Param(p.n))

\* A collect that keeps the first entry received only.
CollectFirst(entries) ==
  IF entries = <<>> THEN <<>>
  ELSE [k \in {entries[1].key} |-> from_infer_parameter(entries[1].value)]

\* .iter().map(|(key, value)| (key, from_infer_parameter(value))).collect()
\* into a BTreeMap: a later entry of the same key replaces an earlier one.
RECURSIVE CollectParams(_)
CollectParams(entries) ==
  IF entries = <<>> THEN <<>>
  ELSE LET n == Len(entries)
           init == CollectParams(SubSeq(entries, 1, n - 1))
           last == entries[n]
       IN  [k \in DOMAIN init \cup {last.key} |->
              IF k = last.key THEN from_infer_parameter(last.value) ELSE init[k]]

\* Blake2s256 over the raw input buffers, fed one after the other.
Blake2s256(chunks) == <<-2>> \o Concat(chunks) \o <<-2>>

\* Blake2b with an 8 byte output.
Blake2b64(feed) == <<-8>> \o feed

\* ProcessedInput::from_infer_request
from_infer_request(req) ==
  [ model_name |-> req.model_name,
    model_version |-> req.model_version,
    id |-> req.id,
    parameters |-> CollectParams(req.parameters),
    inputs |-> [i \in DOMAIN req.inputs |->
                  [ name |-> req.inputs[i].name,
                    datatype |-> req.inputs[i].datatype,
                    shape |-> req.inputs[i].shape,
                    parameters |-> CollectParams(req.inputs[i].parameters) ]],
    outputs |-> [i \in DOMAIN req.outputs |->
                  [ name |-> req.outputs[i].name,
                    parameters |-> CollectParams(req.outputs[i].parameters) ]],
    content_hash |-> Blake2s256(req.raw_input_contents) ]

RECURSIVE ShapeFeed(_)
ShapeFeed(shape) ==
  IF shape = <<>> THEN <<>> ELSE LeBytes8(Head(shape)) \o ShapeFeed(Tail(shape))

RECURSIVE InputsFeed(_)
InputsFeed(inputs) ==
  IF inputs = <<>> THEN <<>>
  ELSE Utf8(Head(inputs).datatype) \o Utf8(Head(inputs).name)
         \o ShapeFeed(Head(inputs).shape) \o InputsFeed(Tail(inputs))

RECURSIVE NamesFeed(_)
NamesFeed(outputs) ==
  IF outputs = <<>> THEN <<>>
  ELSE Utf8(Head(outputs).name) \o NamesFeed(Tail(outputs))

RECURSIVE TensorParamsFeed(_)
TensorParamsFeed(tensors) ==
  IF tensors = <<>> THEN <<>>
  ELSE ParamFeed(Head(tensors).parameters) \o TensorParamsFeed(Tail(tensors))

\* ProcessedInput::inputs_hash
inputs_hash(pi) ==
  Blake2b64(Utf8(pi.model_name) \o Utf8(pi.model_version) \o pi.content_hash
              \o InputsFeed(pi.inputs))

\* ProcessedInput::outputs_hash
outputs_hash(pi) == Blake2b64(NamesFeed(pi.outputs))

\* ProcessedInput::metadata_hash
metadata_hash(pi) ==
  Blake2b64(Utf8(pi.id) \o ParamFeed(pi.parameters)
              \o TensorParamsFeed(pi.inputs) \o TensorParamsFeed(pi.outputs))

RECURSIVE OutputsFeed(_)
OutputsFeed(outputs) ==
  IF outputs = <<>> THEN <<>>
  ELSE Utf8(Head(outputs).datatype) \o Utf8(Head(outputs).name)
         \o ShapeFeed(Head(outputs).shape) \o ParamFeed(Head(outputs).parameters)
         \o OutputsFeed(Tail(outputs))

\* ProcessedOutput::hash
output_hash_of(po) ==
  Blake2b64(ParamFeed(po.parameters) \o OutputsFeed(po.outputs)
              \o Concat(po.raw_output_contents))

\* ProcessedOutput::from_response
from_response(response) ==
  [ parameters |-> CollectParams(response.parameters),
    outputs |-> [i \in DOMAIN response.outputs |->
                  [ parameters |-> CollectParams(response.outputs[i].parameters),
                    name |-> response.outputs[i].name,
                    datatype |-> response.outputs[i].datatype,
                    shape |-> response.outputs[i].shape ]],
    raw_output_contents |-> response.raw_output_contents ]

\* The entries of a wire map built from a BTreeMap, as a HashMap holds them:
\* compared as a mapping, so the model keeps them as a function.
WireMap(m) == [k \in DOMAIN m |-> to_infer_parameter(m[k])]

\* A wire map received as entries, as the mapping it denotes.
RECURSIVE EntriesAsMap(_)
EntriesAsMap(entries) ==
  IF entries = <<>> THEN <<>>
  ELSE LET n == Len(entries)
           init == EntriesAsMap(SubSeq(entries, 1, n - 1))
           last == entries[n]
       IN  [k \in DOMAIN init \cup {last.key} |->
              IF k = last.key THEN last.value ELSE init[k]]

\* A ModelInferResponse as its fields with the maps as mappings: the value
\* two responses are compared by.
ResponseValue(response) ==
  [ model_name |-> response.model_name,
    model_version |-> response.model_version,
    id |-> response.id,
    parameters |-> EntriesAsMap(response.parameters),
    outputs |-> [i \in DOMAIN response.outputs |->
                  [ name |-> response.outputs[i].name,
                    datatype |-> response.outputs[i].datatype,
                    shape |-> response.outputs[i].shape,
                    parameters |-> EntriesAsMap(response.outputs[i].parameters),
                    contents |-> response.outputs[i].contents ]],
    raw_output_contents |-> response.raw_output_contents ]

\* A response built from the output alone: the id is left at its default.
to_response_without_id(po, request) ==
  [ model_name |-> request.model_name,
    model_version |-> request.model_version,
    id |-> "",
    parameters |-> WireMap(po.parameters),
    outputs |-> [i \in DOMAIN po.outputs |->
                  [ name |-> po.outputs[i].name,
                    datatype |-> po.outputs[i].datatype,
                    shape |-> po.outputs[i].shape,
                    parameters |-> WireMap(po.outputs[i].parameters),
                    contents |-> "None" ]],
    raw_output_contents |-> po.raw_output_contents ]

\* ProcessedOutput::to_response, as a response value.
to_response(po, request) ==
  [ model_name |-> request.model_name,
    model_version |-> request.model_version,
    id |-> request.id,
    parameters |-> WireMap(po.parameters),
    outputs |-> [i \in DOMAIN po.outputs |->
                  [ name |-> po.outputs[i].name,
                    datatype |-> po.outputs[i].datatype,
                    shape |-> po.outputs[i].shape,
                    parameters |-> WireMap(po.outputs[i].parameters),
                    contents |-> "None" ]],
    raw_output_contents |-> po.raw_output_contents ]

(***************************************************************************)
(* Matching.                                                               *)
(***************************************************************************)
SeqToSet(q) == {q[i] : i \in DOMAIN q}

Restrict(m, ks) == [k \in ks |-> m[k]]

\* The derived PartialEq of Option<Parameter>: a DoubleParam holds an f64,
\* and a NaN is equal to no f64, itself included.
parameter_eq(p, q) == p = q /\ ~ (p.t = "Double" /\ p.s = "NaN")

\* A comparison of the listed keys by presence alone.
hashmap_compare_presence(map1, map2, keys_to_compare, exclude_keys) ==
  IF exclude_keys
  THEN LET map1_filtered ==
             Restrict(map1, DOMAIN map1 \ SeqToSet(keys_to_compare))
           map2_filtered ==
             Restrict(map2, DOMAIN map2 \ SeqToSet(keys_to_compare))
       IN  /\ DOMAIN map1_filtered = DOMAIN map2_filtered
           /\ \A k \in DOMAIN map1_filtered :
                parameter_eq(map1_filtered[k], map2_filtered[k])
  ELSE \A key \in SeqToSet(keys_to_compare) :
         (key \in DOMAIN map1) = (key \in DOMAIN map2)

\* A comparison whose filter keeps the listed keys and drops the others.
hashmap_compare_filter_inverted(map1, map2, keys_to_compare, exclude_keys) ==
  IF exclude_keys
  THEN LET map1_filtered ==
             Restrict(map1, DOMAIN map1 \cap SeqToSet(keys_to_compare))
           map2_filtered ==
             Restrict(map2, DOMAIN map2 \cap SeqToSet(keys_to_compare))
       IN  /\ DOMAIN map1_filtered = DOMAIN map2_filtered
           /\ \A k \in DOMAIN map1_filtered :
                parameter_eq(map1_filtered[k], map2_filtered[k])
  ELSE \A key \in SeqToSet(keys_to_compare) :
         /\ (key \in DOMAIN map1) = (key \in DOMAIN map2)
         /\ key \in DOMAIN map1 => parameter_eq(map1[key], map2[key])

\* utils::hashmap_compare, which ProcessedInput::matches calls on BTreeMaps as
\* btreemap_compare.
hashmap_compare(map1, map2, keys_to_compare, exclude_keys) ==
  IF exclude_keys
  THEN LET map1_filtered ==
             Restrict(map1, DOMAIN map1 \ SeqToSet(keys_to_compare))
           map2_filtered ==
             Restrict(map2, DOMAIN map2 \ SeqToSet(keys_to_compare))
       IN  /\ DOMAIN map1_filtered = DOMAIN map2_filtered
           /\ \A k \in DOMAIN map1_filtered :
                parameter_eq(map1_filtered[k], map2_filtered[k])
  ELSE \A key \in SeqToSet(keys_to_compare) :
         /\ (key \in DOMAIN map1) = (key \in DOMAIN map2)
         /\ key \in DOMAIN map1 => parameter_eq(map1[key], map2[key])

\* The ParameterMatching modes of the settings.
ParameterMatching == {"Disable", "MatchKeys", "IgnoreKeys"}

\* Settings::get_match_config
get_match_config(request_matching) ==
  [ match_id |-> request_matching.match_id,
    parameter_keys |->
      IF request_matching.parameter_matching = "Disable"
      THEN <<>> ELSE request_matching.parameter_keys,
    exclude_parameters |-> request_matching.parameter_matching # "MatchKeys",
    input_parameter_keys |->
      IF request_matching.input_parameter_matching = "Disable"
      THEN <<>> ELSE request_matching.input_parameter_keys,
    exclude_input_parameters |->
      request_matching.input_parameter_matching # "MatchKeys",
    output_parameter_keys |->
      IF request_matching.output_parameter_matching = "Disable"
      THEN <<>> ELSE request_matching.output_parameter_keys,
    exclude_output_parameters |->
      request_matching.output_parameter_matching # "MatchKeys",
    match_pruned_output |-> request_matching.match_pruned_output ]

\* impl Default for MatchConfig
DefaultMatchConfig ==
  [ match_id |-> FALSE,
    parameter_keys |-> <<>>,
    exclude_parameters |-> TRUE,
    input_parameter_keys |-> <<>>,
    exclude_input_parameters |-> TRUE,
    output_parameter_keys |-> <<>>,
    exclude_output_parameters |-> TRUE,
    match_pruned_output |-> TRUE ]

\* tensors.iter().map(|t| (t.name.clone(), t.clone())).collect::<HashMap>():
\* the last tensor of a name is the one kept.
TensorNames(tensors) == {tensors[i].name : i \in DOMAIN tensors}

TensorByName(tensors, name) ==
  tensors[CHOOSE i \in DOMAIN tensors :
            /\ tensors[i].name = name
            /\ \A j \in DOMAIN tensors : tensors[j].name = name => j <= i]

\* keys.clone().entry(name).or_insert(Vec::new()).clone()
KeysFor(keys, name) == IF name \in DOMAIN keys THEN keys[name] ELSE <<>>

\* A matches that does not compare the datatypes of the input tensors.
matches_without_datatype(self, other_input, config) ==
  /\ ~ ( \/ self.model_name # other_input.model_name
         \/ self.model_version # other_input.model_version
         \/ self.content_hash # other_input.content_hash )
  /\ ~ (config.match_id /\ self.id # other_input.id)
  /\ hashmap_compare(self.parameters, other_input.parameters,
                     config.parameter_keys, config.exclude_parameters)
  /\ \A key \in TensorNames(self.inputs) :
       /\ key \in TensorNames(other_input.inputs)
       /\ LET self_value == TensorByName(self.inputs, key)
              other_value == TensorByName(other_input.inputs, key)
          IN  /\ ~ ( \/ self_value.name # other_value.name
                     \/ self_value.shape # other_value.shape )
              /\ hashmap_compare(self_value.parameters, other_value.parameters,
                                 KeysFor(config.input_parameter_keys, key),
                                 config.exclude_input_parameters)
  /\ \A key \in TensorNames(self.outputs) :
       /\ key \in TensorNames(other_input.outputs)
       /\ LET self_value == TensorByName(self.outputs, key)
              other_value == TensorByName(other_input.outputs, key)
          IN  /\ self_value.name = other_value.name
              /\ hashmap_compare(self_value.parameters, other_value.parameters,
                                 KeysFor(config.output_parameter_keys, key),
                                 config.exclude_output_parameters)

\* A matches that does not compare the content hashes.
matches_without_content_hash(self, other_input, config) ==
  /\ ~ ( \/ self.model_name # other_input.model_name
         \/ self.model_version # other_input.model_version )
  /\ ~ (config.match_id /\ self.id # other_input.id)
  /\ hashmap_compare(self.parameters, other_input.parameters,
                     config.parameter_keys, config.exclude_parameters)
  /\ \A key \in TensorNames(self.inputs) :
       /\ key \in TensorNames(other_input.inputs)
       /\ LET self_value == TensorByName(self.inputs, key)
              other_value == TensorByName(other_input.inputs, key)
          IN  /\ ~ ( \/ self_value.name # other_value.name
                     \/ self_value.datatype # other_value.datatype
                     \/ self_value.shape # other_value.shape )
              /\ hashmap_compare(self_value.parameters, other_value.parameters,
                                 KeysFor(config.input_parameter_keys, key),
                                 config.exclude_input_parameters)
  /\ \A key \in TensorNames(self.outputs) :
       /\ key \in TensorNames(other_input.outputs)
       /\ LET self_value == TensorByName(self.outputs, key)
              other_value == TensorByName(other_input.outputs, key)
          IN  /\ self_value.name = other_value.name
              /\ hashmap_compare(self_value.parameters, other_value.parameters,
                                 KeysFor(config.output_parameter_keys, key),
                                 config.exclude_output_parameters)

\* ProcessedInput::matches
matches(self, other_input, config) ==
  /\ ~ ( \/ self.model_name # other_input.model_name
         \/ self.model_version # other_input.model_version
         \/ self.content_hash # other_input.content_hash )
  /\ ~ (config.match_id /\ self.id # other_input.id)
  /\ hashmap_compare(self.parameters, other_input.parameters,
                     config.parameter_keys, config.exclude_parameters)
  /\ \A key \in TensorNames(self.inputs) :
       /\ key \in TensorNames(other_input.inputs)
       /\ LET self_value == TensorByName(self.inputs, key)
              other_value == TensorByName(other_input.inputs, key)
          IN  /\ ~ ( \/ self_value.name # other_value.name
                     \/ self_value.datatype # other_value.datatype
                     \/ self_value.shape # other_value.shape )
              /\ hashmap_compare(self_value.parameters, other_value.parameters,
                                 KeysFor(config.input_parameter_keys, key),
                                 config.exclude_input_parameters)
  /\ \A key \in TensorNames(self.outputs) :
       /\ key \in TensorNames(other_input.outputs)
       /\ LET self_value == TensorByName(self.outputs, key)
              other_value == TensorByName(other_input.outputs, key)
          IN  /\ self_value.name = other_value.name
              /\ hashmap_compare(self_value.parameters, other_value.parameters,
                                 KeysFor(config.output_parameter_keys, key),
                                 config.exclude_output_parameters)

(***************************************************************************)
(* JSON bodies.  serde writes a Parameter untagged: the variant is not in  *)
(* the text, only the JSON kind of the value is.  Reading tries the        *)
(* variants in their declaration order: Bool, Int64, String, Double,       *)
(* Uint64.  Integers of the model are below 2^63.                          *)
(***************************************************************************)
\* Serialize for Option<Parameter>
JsonParam(p) ==
  CASE p.t = "None" -> [j |-> "null", n |-> 0, s |-> ""]
    [] p.t = "Bool" -> [j |-> "bool", n |-> p.n, s |-> ""]
    [] p.t = "Int64" -> [j |-> "int", n |-> p.n, s |-> ""]
    [] p.t = "String" -> [j |-> "str", n |-> 0, s |-> p.s]
    [] p.t = "Double" -> [j |-> "float", n |-> 0, s |-> p.s]
    [] p.t = "Uint64" -> [j |-> "int", n |-> p.n, s |-> ""]

\* Deserialize for Option<Parameter>
ParseParam(v) ==
  CASE v.j = "null" -> NoParam
    [] v.j = "bool" -> BoolParam(v.n = 1)
    [] v.j = "int" -> Int64Param(v.n)
    [] v.j = "str" -> StringParam(v.s)
    [] v.j = "float" -> DoubleParam(v.s)

JsonParams(m) == [k \in DOMAIN m |-> JsonParam(m[k])]
ParseParams(m) == [k \in DOMAIN m |-> ParseParam(m[k])]

\* serde_with Base64 of a byte field.
Base64(bytes) == <<-64>> \o bytes
Base64Decode(text) == Tail(text)

\* Serialize for ProcessedInput
JsonInput(pi) ==
  [ model_name |-> pi.model_name,
    model_version |-> pi.model_version,
    id |-> pi.id,
    parameters |-> JsonParams(pi.parameters),
    inputs |-> [i \in DOMAIN pi.inputs |->
                  [ name |-> pi.inputs[i].name,
                    datatype |-> pi.inputs[i].datatype,
                    shape |-> pi.inputs[i].shape,
                    parameters |-> JsonParams(pi.inputs[i].parameters) ]],
    outputs |-> [i \in DOMAIN pi.outputs |->
                  [ name |-> pi.outputs[i].name,
                    parameters |-> JsonParams(pi.outputs[i].parameters) ]],
    content_hash |-> Base64(pi.content_hash) ]

\* Deserialize for ProcessedInput
ParseInput(js) ==
  [ model_name |-> js.model_name,
    model_version |-> js.model_version,
    id |-> js.id,
    parameters |-> ParseParams(js.parameters),
    inputs |-> [i \in DOMAIN js.inputs |->
                  [ name |-> js.inputs[i].name,
                    datatype |-> js.inputs[i].datatype,
                    shape |-> js.inputs[i].shape,
                    parameters |-> ParseParams(js.inputs[i].parameters) ]],
    outputs |-> [i \in DOMAIN js.outputs |->
                  [ name |-> js.outputs[i].name,
                    parameters |-> ParseParams(js.outputs[i].parameters) ]],
    content_hash |-> Base64Decode(js.content_hash) ]

\* Serialize for ProcessedOutput
JsonOutput(po) ==
  [ parameters |-> JsonParams(po.parameters),
    outputs |-> [i \in DOMAIN po.outputs |->
                  [ parameters |-> JsonParams(po.outputs[i].parameters),
                    name |-> po.outputs[i].name,
                    datatype |-> po.outputs[i].datatype,
                    shape |-> po.outputs[i].shape ]],
    raw_output_contents |->
      [i \in DOMAIN po.raw_output_contents |-> Base64(po.raw_output_contents[i])] ]

\* Deserialize for ProcessedOutput
ParseOutput(js) ==
  [ parameters |-> ParseParams(js.parameters),
    outputs |-> [i \in DOMAIN js.outputs |->
                  [ parameters |-> ParseParams(js.outputs[i].parameters),
                    name |-> js.outputs[i].name,
                    datatype |-> js.outputs[i].datatype,
                    shape |-> js.outputs[i].shape ]],
    raw_output_contents |->
      [i \in DOMAIN js.raw_output_contents |->
         Base64Decode(js.raw_output_contents[i])] ]

\* The body of a file: a whole JSON document, or what a failed write left.
JsonBody(doc) == [state |-> "json", doc |-> doc]
PartialBody == [state |-> "partial"]

(***************************************************************************)
(* File names.  An infer file name is a sequence of segments, a literal or *)
(* the 16 hexadecimal characters of an 8 byte digest.  A config file name  *)
(* is a sequence of characters.                                            *)
(***************************************************************************)
Lit(text) == [lit |-> text, hex |-> <<>>]
Hex(digest) == [lit |-> "", hex |-> digest]

StrLen(text) ==
  CASE text = "infer-" -> 6
    [] text = "#" -> 1
    [] text = ".inferstore" -> 11
    [] text = "xxxxxxxxxxxxxxxx" -> 16

SegLen(seg) == IF seg.lit # "" THEN StrLen(seg.lit) ELSE 16

RECURSIVE NameLen(_)
NameLen(name) == IF name = <<>> THEN 0 ELSE SegLen(Head(name)) + NameLen(Tail(name))

\* A file name with the output digest before the metadata digest.
get_file_name_output_third(input, output_hash) ==
  << Lit("infer-"), Hex(inputs_hash(input)), Lit("#"), Hex(outputs_hash(input)),
     Lit("#"), Hex(output_hash), Lit("#"), Hex(metadata_hash(input)),
     Lit(".inferstore") >>

\* CachableModelInfer::get_hash and get_file_name
get_file_name(input, output_hash) ==
  << Lit("infer-"), Hex(inputs_hash(input)), Lit("#"), Hex(outputs_hash(input)),
     Lit("#"), Hex(metadata_hash(input)), Lit("#"), Hex(output_hash),
     Lit(".inferstore") >>

\* hex::decode(file_name[lo..hi]): the digest of the hexadecimal segment that
\* spans exactly the characters lo..hi.
HexSlice(name, lo, hi) ==
  LET i == CHOOSE i \in DOMAIN name :
             /\ NameLen(SubSeq(name, 1, i - 1)) = lo
             /\ NameLen(SubSeq(name, 1, i)) = hi
             /\ name[i].lit = ""
  IN  name[i].hex

\* Whether the characters lo..hi are hexadecimal digits, as they are when
\* they are exactly one hexadecimal segment.
IsHexSlice(name, lo, hi) ==
  \E i \in DOMAIN name :
    /\ NameLen(SubSeq(name, 1, i - 1)) = lo
    /\ NameLen(SubSeq(name, 1, i)) = hi
    /\ name[i].lit = ""

\* CachableModelInfer::matches_file_name
infer_matches_file_name(file_name) ==
  /\ file_name # <<>>
  /\ Head(file_name) = Lit("infer-")
  /\ file_name[Len(file_name)] = Lit(".inferstore")
  /\ NameLen(file_name) = 84

Chars(text) ==
  CASE text = "config-" -> <<"c", "o", "n", "f", "i", "g", "-">>
    [] text = ".inferstore" ->
         <<".", "i", "n", "f", "e", "r", "s", "t", "o", "r", "e">>

\* A name written into the file name as it is.
unescaped(text) == text

\* urlencoding::encode: every character but the unreserved ones is escaped.
Unreserved == {"m", "n", "0", "1", "2", "3", "5", "F", "-", "_", ".", "~"}

Escape(c) ==
  CASE c = "#" -> <<"%", "2", "3">>
    [] c = "/" -> <<"%", "2", "F">>
    [] c = " " -> <<"%", "2", "0">>
    [] c = "%" -> <<"%", "2", "5">>

RECURSIVE encode(_)
encode(text) ==
  IF text = <<>> THEN <<>>
  ELSE (IF Head(text) \in Unreserved THEN <<Head(text)>> ELSE Escape(Head(text)))
         \o encode(Tail(text))

\* urlencoding::decode: a '%' followed by two hexadecimal digits is one
\* character; any other character stands for itself.
HexDigits == {"0", "1", "2", "3", "5", "F"}

Unescape(h1, h2) ==
  CASE h1 = "2" /\ h2 = "3" -> "#"
    [] h1 = "2" /\ h2 = "F" -> "/"
    [] h1 = "2" /\ h2 = "0" -> " "
    [] h1 = "2" /\ h2 = "5" -> "%"
    [] OTHER -> "?"

RECURSIVE decode(_)
decode(text) ==
  IF text = <<>> THEN <<>>
  ELSE IF /\ Head(text) = "%"
          /\ Len(text) >= 3
          /\ text[2] \in HexDigits
          /\ text[3] \in HexDigits
       THEN <<Unescape(text[2], text[3])>> \o decode(SubSeq(text, 4, Len(text)))
       ELSE <<Head(text)>> \o decode(Tail(text))

\* format!("config-{}#{}.inferstore", encode(name), encode(version))
config_file_name(name, version) ==
  Chars("config-") \o encode(name) \o <<"#">> \o encode(version)
    \o Chars(".inferstore")

IsPrefix(p, q) == Len(p) <= Len(q) /\ SubSeq(q, 1, Len(p)) = p
IsSuffix(p, q) == Len(p) <= Len(q) /\ SubSeq(q, Len(q) - Len(p) + 1, Len(q)) = p

\* CachableModelConfig::matches_file_name
config_matches_file_name(file_name) ==
  IsPrefix(Chars("config-"), file_name) /\ IsSuffix(Chars(".inferstore"), file_name)

\* Path::file_stem: the name up to its last '.', the whole name when the only
\* '.' is the first character or there is none.
file_stem(file_name) ==
  LET dots == {i \in DOMAIN file_name : file_name[i] = "." /\ i > 1}
  IN  IF dots = {} THEN file_name
      ELSE SubSeq(file_name, 1, (CHOOSE i \in dots : \A j \in dots : j <= i) - 1)

\* str::split('#'): the parts between the separators.
RECURSIVE split(_, _)
split(text, sep) ==
  LET at == {i \in DOMAIN text : text[i] = sep}
  IN  IF at = {} THEN <<text>>
      ELSE LET i == CHOOSE i \in at : \A j \in at : i <= j
           IN  <<SubSeq(text, 1, i - 1)>> \o split(SubSeq(text, i + 1, Len(text)), sep)

(***************************************************************************)
(* Entries (impl Cachable).  The store directory is kept as two maps from  *)
(* file name to body, the files named infer-... and those named            *)
(* config-...: neither kind's matches_file_name accepts a name of the      *)
(* other.  A fallible call returns a record with ok, and err when it       *)
(* failed.                                                                 *)
(***************************************************************************)
\* File::create_new, then BufWriter + serde_json::to_writer + flush.  io is
\* what the file system does to the call: "ok", or "write_failed" when the
\* file was created and writing it failed.
\* File::create in place of File::create_new: an existing file is truncated
\* and written again.
CreateAndWrite(files, path, doc, io) ==
  IF io = "ok"
  THEN [ok |-> TRUE, err |-> "",
        files |-> [p \in DOMAIN files \cup {path} |->
                     IF p = path THEN JsonBody(doc) ELSE files[p]]]
  ELSE [ok |-> FALSE, err |-> "Io",
        files |-> [p \in DOMAIN files \cup {path} |->
                     IF p = path THEN PartialBody ELSE files[p]]]

CreateNewAndWrite(files, path, doc, io) ==
  IF path \in DOMAIN files
  THEN [ok |-> FALSE, err |-> "AlreadyExists", files |-> files]
  ELSE IF io = "ok"
       THEN [ok |-> TRUE, err |-> "", files |-> (path :> JsonBody(doc)) @@ files]
       ELSE [ok |-> FALSE, err |-> "Io", files |-> (path :> PartialBody) @@ files]

\* <CachableModelInfer as Cachable>::new
infer_new(files, input, output, io) ==
  LET cachable_model_infer == [input |-> input, output_hash |-> output_hash_of(output)]
      path == get_file_name(input, output_hash_of(output))
      written == CreateNewAndWrite(files, path,
                   [input |-> JsonInput(input), output |-> JsonOutput(output)], io)
  IN  [ok |-> written.ok, err |-> written.err, files |-> written.files,
       path |-> path, entry |-> cachable_model_infer]

\* CachableModelInfer::from_file: a body that does not parse is an error
\* returned by `?`; hex::decode(..).unwrap() panics on a name whose
\* characters 57..73 are not hexadecimal digits.
infer_from_file(files, path) ==
  IF files[path].state # "json"
  THEN [ok |-> FALSE, err |-> "Parse"]
  ELSE IF ~ IsHexSlice(path, 57, 73)
  THEN [ok |-> FALSE, err |-> "Panic"]
  ELSE [ok |-> TRUE, err |-> "",
        entry |-> [input |-> ParseInput(files[path].doc.input),
                   output_hash |-> HexSlice(path, 57, 73)]]

\* CachableModelInfer::get_output
infer_get_output(files, entry) ==
  LET file_name == get_file_name(entry.input, entry.output_hash)
  IN  IF file_name \notin DOMAIN files
      THEN [ok |-> FALSE, err |-> "NotFound"]
      ELSE IF files[file_name].state # "json"
           THEN [ok |-> FALSE, err |-> "Parse"]
           ELSE [ok |-> TRUE, err |-> "",
                 output |-> ParseOutput(files[file_name].doc.output)]

\* <CachableModelInfer as Cachable>::matches
infer_matches(entry, input, config) == matches(entry.input, input, config)

\* <CachableModelConfig as Cachable>::new
config_new(files, input, output, io) ==
  LET cachable == [input |-> input, output |-> output]
      path == config_file_name(input.name, input.version)
      written == CreateNewAndWrite(files, path, output, io)
  IN  [ok |-> written.ok, err |-> written.err, files |-> written.files,
       path |-> path, entry |-> cachable]

\* CachableModelConfig::from_file
config_from_file(files, path) ==
  IF files[path].state # "json"
  THEN [ok |-> FALSE, err |-> "Parse"]
  ELSE LET stem == file_stem(path)
           parts == split(SubSeq(stem, 8, Len(stem)), "#")
       IN  IF Len(parts) < 2
           THEN [ok |-> FALSE, err |-> "Panic"]
           ELSE [ok |-> TRUE, err |-> "",
                 entry |-> [input |-> [name |-> decode(parts[1]),
                                       version |-> decode(parts[2])],
                            output |-> files[path].doc]]

\* CachableModelConfig::get_output
config_get_output(files, entry) == [ok |-> TRUE, err |-> "", output |-> entry.output]

\* A comparison of the entry's version with the request's name.
config_matches_mixed(entry, input, config) ==
  entry.input.name = input.name /\ entry.input.version = input.name

\* <CachableModelConfig as Cachable>::matches
config_matches(entry, input, config) ==
  entry.input.name = input.name /\ entry.input.version = input.version

\* The Cachable implementation of an entry kind.
T_new(kind, files, input, output, io) ==
  IF kind = "infer" THEN infer_new(files, input, output, io)
  ELSE config_new(files, input, output, io)

T_from_file(kind, files, path) ==
  IF kind = "infer" THEN infer_from_file(files, path) ELSE config_from_file(files, path)

T_get_output(kind, files, entry) ==
  IF kind = "infer" THEN infer_get_output(files, entry)
  ELSE config_get_output(files, entry)

T_matches(kind, entry, input, config) ==
  IF kind = "infer" THEN infer_matches(entry, input, config)
  ELSE config_matches(entry, input, config)

T_matches_file_name(kind, file_name) ==
  IF kind = "infer" THEN infer_matches_file_name(file_name)
  ELSE config_matches_file_name(file_name)

\* The file an entry stands for: the one get_output opens, the one new wrote.
T_file_name(kind, entry) ==
  IF kind = "infer" THEN get_file_name(entry.input, entry.output_hash)
  ELSE config_file_name(entry.input.name, entry.input.version)

(***************************************************************************)
(* CacheStore<T>.                                                          *)
(***************************************************************************)
\* CacheStore::find_output: the scan under the read lock.  The result names
\* the entry that answered, index 0 when none did.
\* A scan that gives up at the first matching entry whose output cannot be
\* read.
RECURSIVE ScanAborting(_, _, _, _, _, _)
ScanAborting(kind, store, files, match_input, config, i) ==
  IF i > Len(store) THEN [found |-> FALSE, index |-> 0]
  ELSE IF T_matches(kind, store[i], match_input, config)
       THEN IF T_get_output(kind, files, store[i]).ok
            THEN [found |-> TRUE, index |-> i,
                  output |-> T_get_output(kind, files, store[i]).output]
            ELSE [found |-> FALSE, index |-> 0]
       ELSE ScanAborting(kind, store, files, match_input, config, i + 1)

RECURSIVE ScanFrom(_, _, _, _, _, _)
ScanFrom(kind, store, files, match_input, config, i) ==
  IF i > Len(store) THEN [found |-> FALSE, index |-> 0]
  ELSE IF /\ T_matches(kind, store[i], match_input, config)
          /\ T_get_output(kind, files, store[i]).ok
       THEN [found |-> TRUE, index |-> i,
             output |-> T_get_output(kind, files, store[i]).output]
       ELSE ScanFrom(kind, store, files, match_input, config, i + 1)

\* A scan that answers with the first entry, matching or not.
find_first_entry(kind, store, files, match_input, config) ==
  IF store # <<>> /\ T_get_output(kind, files, store[1]).ok
  THEN [found |-> TRUE, index |-> 1,
        output |-> T_get_output(kind, files, store[1]).output]
  ELSE [found |-> FALSE, index |-> 0]

find_output(kind, store, files, match_input, config) ==
  ScanFrom(kind, store, files, match_input, config, 1)

\* CacheStore::store by a caller alone: T::new, whose error is returned by
\* `?`, then the push under the write lock.  mem is the in-memory sequence.
store(kind, files, mem, input, output, io) ==
  LET made == T_new(kind, files, input, output, io)
  IN  [ok |-> made.ok, err |-> made.err, files |-> made.files, path |-> made.path,
       mem |-> IF made.ok THEN Append(mem, made.entry) ELSE mem]

\* All orders of a finite set, as sequences without repetition.
RECURSIVE Orders(_)
Orders(S) ==
  IF S = {} THEN {<<>>}
  ELSE UNION {{<<x>> \o q : q \in Orders(S \ {x})} : x \in S}

\* CacheStore::load panics when from_file panics on a file whose name matches.
load_panics(kind, files) ==
  \E path \in DOMAIN files :
    /\ T_matches_file_name(kind, path)
    /\ T_from_file(kind, files, path).err = "Panic"

\* CacheStore::load: read_dir yields the files in an order of its own; those
\* whose name matches and that from_file can read are pushed in that order.
\* The set of the stores load can return with, empty when it panics.
load(kind, files) ==
  LET loadable == {path \in DOMAIN files :
                     /\ T_matches_file_name(kind, path)
                     /\ T_from_file(kind, files, path).ok}
  IN  IF load_panics(kind, files) THEN {}
      ELSE {[i \in DOMAIN order |-> T_from_file(kind, files, order[i]).entry] :
              order \in Orders(loadable)}

(***************************************************************************)
(* The requests, responses and settings the model draws from.              *)
(***************************************************************************)
Tensor(name) ==
  [name |-> name, datatype |-> "FP32", shape |-> <<1, 2, 3>>, parameters |-> <<>>]

InferRequest(id, parameters) ==
  [ model_name |-> "m", model_version |-> "1", id |-> id,
    parameters |-> parameters,
    inputs |-> <<Tensor("img")>>,
    outputs |-> <<[name |-> "o", parameters |-> <<>>]>>,
    raw_input_contents |-> << <<255, 128, 1>> >> ]

Entry(key, choice) == [key |-> key, value |-> InferParameter(choice)]

\* Two requests that differ in id only, and one with a top-level parameter.
InferRequests ==
  { InferRequest("r1", <<>>),
    InferRequest("r2", <<>>),
    InferRequest("r1", <<Entry("k", Uint64Param(1))>>) }

ConfigRequests == { [name |-> <<"m">>, version |-> <<"1">>] }

\* What the backend answers a ModelInfer with: the request's model and id
\* echoed, one output tensor, its data in raw form or in the tensor's typed
\* contents.
InferResponse(request, parameters, contents, raw) ==
  [ model_name |-> request.model_name,
    model_version |-> request.model_version,
    id |-> request.id,
    parameters |-> parameters,
    outputs |-> <<[name |-> "o", datatype |-> "FP32", shape |-> <<1>>,
                   parameters |-> <<>>, contents |-> contents]>>,
    raw_output_contents |-> raw ]

InferResponses(request) ==
  { InferResponse(request, <<>>, "None", << <<7>> >>),
    InferResponse(request, <<Entry("p", Uint64Param(1))>>, "None", << <<9>> >>),
    InferResponse(request, <<>>, "fp32_contents", <<>>) }

ConfigResponses == { [config |-> "C1"], [config |-> "C2"] }

\* The gRPC status codes an upstream call fails with.
UpstreamErrors == {"Internal", "InvalidArgument"}

RequestMatching(match_id, parameter_matching, parameter_keys) ==
  [ match_id |-> match_id,
    parameter_matching |-> parameter_matching,
    parameter_keys |-> parameter_keys,
    input_parameter_matching |-> "Disable",
    input_parameter_keys |-> <<>>,
    output_parameter_matching |-> "Disable",
    output_parameter_keys |-> <<>>,
    match_pruned_output |-> FALSE ]

\* Settings::new's defaults, and two settings files.
Policies ==
  { RequestMatching(FALSE, "Disable", <<>>),
    RequestMatching(TRUE, "Disable", <<>>),
    RequestMatching(FALSE, "IgnoreKeys", <<"k">>) }

NoValue == [none |-> TRUE]

(***************************************************************************)
(* State.                                                                  *)
(***************************************************************************)
VARIABLES
  mode,                      \* settings.mode
  request_matching,          \* settings.request_matching
  inference_service_client,  \* "Some" or "None"
  dir,                       \* the store directory, the files of each kind
  inference_store,           \* CacheStore<CachableModelInfer>.store
  config_store,              \* CacheStore<CachableModelConfig>.store
  tasks,                     \* the unary handlers in flight
  history,                   \* the unary calls that returned, in order
  upstream_calls,            \* calls made on the upstream client
  stream_input,              \* the messages of the request stream
  worker,                    \* the task model_stream_infer spawned
  channel,                   \* the responses queued between tx and rx
  rx_open,                   \* the consumer still holds the receiver
  delivered                  \* what the consumer received, in order

vars ==
  << mode, request_matching, inference_service_client, dir, inference_store,
     config_store, tasks, history, upstream_calls, stream_input, worker,
     channel, rx_open, delivered >>

settings_vars == << mode, request_matching, inference_service_client >>
unary_vars == << tasks, history >>
stream_vars == << stream_input, worker, channel, rx_open, delivered >>

Tasks == 1..NumTasks

\* What find_output returned to a handler that did not get a hit; candidates
\* are the entries that matched with a readable output when it scanned.
Missed == [found |-> FALSE, index |-> 0, candidates |-> {}, unreadable |-> {}]

\* guard is the guard of its store's RwLock the task holds: "", "read" or
\* "write".
IdleTask ==
  [pc |-> "idle", kind |-> "", request |-> NoValue, started |-> 0,
   found |-> Missed, upstream |-> FALSE, response |-> NoValue, guard |-> ""]

store_of(kind) == IF kind = "infer" THEN inference_store ELSE config_store

\* The directories an earlier Collect run can have left: files written by
\* new for requests and the backend's answers to them.
RECURSIVE WriteAll(_, _, _)
WriteAll(kind, files, pairs) ==
  IF pairs = {} THEN files
  ELSE LET pr == CHOOSE x \in pairs : TRUE
       IN  WriteAll(kind, T_new(kind, files, pr.input, pr.output, "ok").files,
                    pairs \ {pr})

InferPairs ==
  {[input |-> from_infer_request(r), output |-> from_response(a)] :
     r \in InferRequests, a \in UNION {InferResponses(q) : q \in InferRequests}}

ConfigPairs == {[input |-> r, output |-> a] : r \in ConfigRequests, a \in ConfigResponses}

EarlierRuns ==
  {[infer |-> WriteAll("infer", <<>>, ps), config |-> WriteAll("config", <<>>, cs)] :
     ps \in {x \in SUBSET InferPairs : Cardinality(x) <= MaxInitFiles},
     cs \in {x \in SUBSET ConfigPairs : Cardinality(x) <= MaxInitFiles}}

(***************************************************************************)
(* Start-up (main).                                                        *)
(***************************************************************************)
\* A start-up that connects the upstream client whatever the mode.
connect_in_every_mode(server_mode) == "Some"

\* main: the upstream client is connected in Collect mode only.
connect(server_mode) == IF server_mode = "Collect" THEN "Some" ELSE "None"

Startup ==
  /\ mode \in {"Collect", "Serve"}
  /\ request_matching \in Policies
  /\ inference_service_client = connect(mode)
  /\ dir \in EarlierRuns
  /\ inference_store \in load("infer", dir.infer)
  /\ config_store \in load("config", dir.config)
  /\ upstream_calls = 0

\* failed names the failure the worker met on the input it took last:
\* "transport", "miss", "upstream" or "store".  send_failed is the input
\* whose message was first sent into a closed channel, 0 when none was.
NoWorker ==
  [pc |-> "none", taken |-> 0, request |-> NoValue, response |-> NoValue,
   pending |-> NoValue, after |-> "", failed |-> "", send_failed |-> 0]

NoUnary ==
  /\ tasks = [t \in Tasks |-> IdleTask]
  /\ history = <<>>

NoStream ==
  /\ stream_input = <<>>
  /\ worker = NoWorker
  /\ channel = <<>>
  /\ rx_open = FALSE
  /\ delivered = <<>>

Init ==
  /\ Startup
  /\ NoUnary
  /\ NoStream

(***************************************************************************)
(* Unary calls: model_infer and model_config.  A handler is a task; its pc *)
(* is the await it stands at.                                              *)
(***************************************************************************)
Active == {t \in Tasks : tasks[t].pc # "idle"}

\* The status or response a handler returns.
Ok(value) == [ok |-> TRUE, code |-> "", value |-> value]
Err(code) == [ok |-> FALSE, code |-> code, value |-> NoValue]
Panicked == [ok |-> FALSE, code |-> "panic", value |-> NoValue]

\* The handler returns: the call joins the history, with what find_output
\* returned to it (found), whether it called upstream and what that
\* answered, and how its CacheStore::store ended (stored: "" when it made
\* none, "Ok", or the error).
Returned(t, response, result, found, stored) ==
  /\ history' = Append(history,
       [ kind |-> tasks[t].kind, request |-> tasks[t].request,
         started |-> tasks[t].started, found |-> found,
         upstream |-> tasks[t].upstream, response |-> response,
         stored |-> stored, result |-> result ])
  /\ tasks' = [tasks EXCEPT ![t] = IdleTask]

Return(t, result, found, stored) ==
  Returned(t, tasks[t].response, result, found, stored)

\* What a failed upstream call answered: a Status with its code.
UpstreamError(code) == [error |-> code]

\* A request arrives; the runtime hands it to the first free task.
Receive(t) ==
  /\ tasks[t].pc = "idle"
  /\ \A u \in Tasks : u < t => tasks[u].pc # "idle"
  /\ Len(history) + Cardinality(Active) < MaxRequests
  /\ \E kind \in {"infer", "config"} :
       \E request \in (IF kind = "infer" THEN InferRequests ELSE ConfigRequests) :
         tasks' = [tasks EXCEPT ![t] =
                     [IdleTask EXCEPT !.pc = "find", !.kind = kind,
                                      !.request = request,
                                      !.started = Len(history)]]
  /\ UNCHANGED << settings_vars, stream_vars, dir,
                  inference_store, config_store, history, upstream_calls >>

\* What the handler looks up, and under which config.
match_input(kind, request) ==
  IF kind = "infer" THEN from_infer_request(request) ELSE request

match_config(kind) ==
  IF kind = "infer" THEN get_match_config(request_matching) ELSE NoValue

\* The reply built from a cached output.
hit_reply(kind, output, request) ==
  IF kind = "infer" THEN to_response(output, request) ELSE output

\* The status of a miss without an upstream client.
miss_status(kind) == IF kind = "infer" THEN "NotFound" ELSE "Unavailable"

\* The entries find_output can answer with: those that match and whose
\* get_output succeeds, by their place in the sequence.
Candidates(kind, mem, files, input, config) ==
  {i \in DOMAIN mem :
     /\ T_matches(kind, mem[i], input, config)
     /\ T_get_output(kind, files, mem[i]).ok}

\* The entries that match and whose get_output fails: find_output logs the
\* error and goes on to the next entry.
Unreadable(kind, mem, files, input, config) ==
  {i \in DOMAIN mem :
     /\ T_matches(kind, mem[i], input, config)
     /\ ~ T_get_output(kind, files, mem[i]).ok}

\* What a call of find_output returned, with the candidates it had and the
\* matching entries it could not read.
Scanned(found, candidates, unreadable) ==
  IF found.found
  THEN [found |-> TRUE, index |-> found.index, output |-> found.output,
        candidates |-> candidates, unreadable |-> unreadable]
  ELSE [found |-> FALSE, index |-> 0, candidates |-> candidates,
        unreadable |-> unreadable]

\* A find_output whose read guard outlives the call.
find_output_guard_kept(held) == held

\* The guard the handler holds once find_output has returned:
\* readable_store is a local of find_output and is dropped at its return.
find_output_guard(held) == ""

\* find_output, then: a hit returns; a miss without a client returns the
\* status; a miss with a client sends the request upstream.
Find(t) ==
  /\ tasks[t].pc = "find"
  /\ LET kind == tasks[t].kind
         found == find_output(kind, store_of(kind), dir[kind],
                              match_input(kind, tasks[t].request),
                              match_config(kind))
         seen == Scanned(found,
                         Candidates(kind, store_of(kind), dir[kind],
                                    match_input(kind, tasks[t].request),
                                    match_config(kind)),
                         Unreadable(kind, store_of(kind), dir[kind],
                                    match_input(kind, tasks[t].request),
                                    match_config(kind)))
     IN  IF found.found
         THEN /\ Return(t, Ok(hit_reply(kind, found.output, tasks[t].request)),
                        seen, "")
              /\ UNCHANGED upstream_calls
         ELSE IF inference_service_client = "None"
              THEN /\ Return(t, Err(miss_status(kind)), seen, "")
                   /\ UNCHANGED upstream_calls
              ELSE /\ tasks' = [tasks EXCEPT ![t].pc = "upstream",
                                             ![t].found = seen,
                                             ![t].upstream = TRUE,
                                             ![t].guard = find_output_guard(@)]
                   /\ upstream_calls' = upstream_calls + 1
                   /\ UNCHANGED history
  /\ UNCHANGED << settings_vars, stream_vars, dir,
                  inference_store, config_store >>

\* Every failed upstream call returned as Status::unknown.
upstream_status_unknown(kind, code) == "Unknown"

\* The status a failed upstream call is returned as: model_infer's `?`
\* passes it on, model_config wraps its text in Status::unknown.
upstream_status(kind, code) == IF kind = "infer" THEN code ELSE "Unknown"

\* The upstream call fails.
\* A failed upstream call that leaves a file behind, as if the file were
\* created before the call.
UpstreamFailsLeavingFile(t) ==
  /\ tasks[t].pc = "upstream"
  /\ \E code \in UpstreamErrors :
       Returned(t, UpstreamError(code), Err(upstream_status(tasks[t].kind, code)),
                tasks[t].found, "")
  /\ \E response \in (IF tasks[t].kind = "infer"
                      THEN InferResponses(tasks[t].request) ELSE ConfigResponses) :
       dir' = [dir EXCEPT ![tasks[t].kind] =
                 T_new(tasks[t].kind, @, match_input(tasks[t].kind, tasks[t].request),
                       IF tasks[t].kind = "infer" THEN from_response(response)
                       ELSE response,
                       "write_failed").files]
  /\ UNCHANGED << settings_vars, stream_vars,
                  inference_store, config_store, upstream_calls >>

UpstreamFails(t) ==
  /\ tasks[t].pc = "upstream"
  /\ \E code \in UpstreamErrors :
       Returned(t, UpstreamError(code), Err(upstream_status(tasks[t].kind, code)),
                tasks[t].found, "")
  /\ UNCHANGED << settings_vars, stream_vars, dir,
                  inference_store, config_store, upstream_calls >>

\* The upstream call answers.
UpstreamAnswers(t) ==
  /\ tasks[t].pc = "upstream"
  /\ \E response \in (IF tasks[t].kind = "infer"
                      THEN InferResponses(tasks[t].request) ELSE ConfigResponses) :
       tasks' = [tasks EXCEPT ![t].pc = "store", ![t].response = response]
  /\ UNCHANGED << settings_vars, stream_vars, dir,
                  inference_store, config_store, history, upstream_calls >>

\* What is stored for an upstream response.
store_output(kind, response) ==
  IF kind = "infer" THEN from_response(response) ELSE response

\* What a failed store makes of the handler: model_infer returns
\* Status::unknown, model_config unwraps the error.
store_failure(kind) == IF kind = "infer" THEN Err("Unknown") ELSE Panicked

\* CacheStore::store, up to the write lock: T::new writes the file.
StoreNew(t) ==
  /\ tasks[t].pc = "store"
  /\ \E io \in {"ok", "write_failed"} :
       LET kind == tasks[t].kind
           made == T_new(kind, dir[kind], match_input(kind, tasks[t].request),
                         store_output(kind, tasks[t].response), io)
       IN  /\ dir' = [dir EXCEPT ![kind] = made.files]
           /\ IF made.ok
              THEN /\ tasks' = [tasks EXCEPT ![t].pc = "push"]
                   /\ UNCHANGED history
              ELSE Return(t, store_failure(kind), tasks[t].found, made.err)
  /\ UNCHANGED << settings_vars, stream_vars,
                  inference_store, config_store, upstream_calls >>

\* The entry new made, for the push.
new_entry(kind, request, response) ==
  T_new(kind, <<>>, match_input(kind, request), store_output(kind, response), "ok").entry

\* The reply after a store: the upstream response.
miss_reply(kind, response) ==
  IF kind = "infer" THEN ResponseValue(response) ELSE response

\* A store that puts the new entry in front of the others.
StoreInFront(t) ==
  /\ tasks[t].pc = "push"
  /\ LET kind == tasks[t].kind
         cachable == new_entry(kind, tasks[t].request, tasks[t].response)
     IN  /\ IF kind = "infer"
            THEN /\ inference_store' = <<cachable>> \o inference_store
                 /\ UNCHANGED config_store
            ELSE /\ config_store' = <<cachable>> \o config_store
                 /\ UNCHANGED inference_store
         /\ Return(t, Ok(miss_reply(kind, tasks[t].response)), tasks[t].found, "Ok")
  /\ UNCHANGED << settings_vars, stream_vars, dir,
                  upstream_calls >>

\* CacheStore::store under the write lock: the entry is pushed, and the
\* handler returns the upstream response.
StorePush(t) ==
  /\ tasks[t].pc = "push"
  /\ LET kind == tasks[t].kind
         cachable == new_entry(kind, tasks[t].request, tasks[t].response)
     IN  /\ IF kind = "infer"
            THEN /\ inference_store' = Append(inference_store, cachable)
                 /\ UNCHANGED config_store
            ELSE /\ config_store' = Append(config_store, cachable)
                 /\ UNCHANGED inference_store
         /\ Return(t, Ok(miss_reply(kind, tasks[t].response)), tasks[t].found, "Ok")
  /\ UNCHANGED << settings_vars, stream_vars, dir,
                  upstream_calls >>

Next ==
  \E t \in Tasks :
    \/ Receive(t)
    \/ Find(t)
    \/ UpstreamFails(t)
    \/ UpstreamAnswers(t)
    \/ StoreNew(t)
    \/ StorePush(t)

Spec == Init /\ [][Next]_vars

(***************************************************************************)
(* model_stream_infer: one worker task per stream, the bounded channel to  *)
(* the consumer of the response stream.                                    *)
(***************************************************************************)
\* An item of the request stream: a message, or a transport error.
Message(request) == [ok |-> TRUE, request |-> request]
TransportError == [ok |-> FALSE, request |-> NoValue]

StreamItems == {Message(r) : r \in InferRequests} \cup {TransportError}

RECURSIVE SeqsUpTo(_, _)
SeqsUpTo(S, n) ==
  IF n = 0 THEN {<<>>}
  ELSE SeqsUpTo(S, n - 1)
         \cup {Append(q, x) : q \in {p \in SeqsUpTo(S, n - 1) : Len(p) = n - 1}, x \in S}

\* What tx carries: Ok(ModelStreamInferResponse) or Err(Status).  input is
\* the position in the request stream of the message it answers.
StreamResponse(input, error_message, infer_response) ==
  [status |-> "Ok", input |-> input, error_message |-> error_message,
   infer_response |-> infer_response]

StreamStatus(input, code) ==
  [status |-> code, input |-> input, error_message |-> "",
   infer_response |-> NoValue]

\* ProcessedOutput::to_stream_response
to_stream_response(input, po, request) ==
  StreamResponse(input, "", to_response(po, request))

StreamInit ==
  /\ stream_input \in SeqsUpTo(StreamItems, MaxStreamLen)
  /\ worker = [NoWorker EXCEPT !.pc = "next"]
  /\ channel = <<>>
  /\ rx_open = TRUE
  /\ delivered = <<>>

InitStream ==
  /\ Startup
  /\ NoUnary
  /\ StreamInit

\* The worker is at tx.send(message).await, and goes to `after` once sent.
Send(message, after) ==
  [worker EXCEPT !.pc = "send", !.pending = message, !.after = after]

\* The worker met a failure: it sends the message for it and returns.
Fail(message, failure) == [Send(message, "done") EXCEPT !.failed = failure]

\* stream.next() yields None: the loop ends and the worker with it.
StreamEnds ==
  /\ worker.pc = "next"
  /\ worker.taken = Len(stream_input)
  /\ worker' = [worker EXCEPT !.pc = "done"]
  /\ UNCHANGED << settings_vars, unary_vars, dir, inference_store, config_store,
                  upstream_calls, stream_input, channel, rx_open, delivered >>

\* stream.next() yields a transport error: it is sent on, the worker returns.
StreamErrs ==
  /\ worker.pc = "next"
  /\ worker.taken < Len(stream_input)
  /\ ~ stream_input[worker.taken + 1].ok
  /\ worker' = [Fail(StreamResponse(worker.taken + 1, "transport", NoValue),
                     "transport")
                  EXCEPT !.taken = worker.taken + 1]
  /\ UNCHANGED << settings_vars, unary_vars, dir, inference_store, config_store,
                  upstream_calls, stream_input, channel, rx_open, delivered >>

\* stream.next() yields a message: find_output, then a hit is sent and the
\* worker returns; a miss without a client sends NotFound and returns; a miss
\* with a client calls upstream.
StreamFind ==
  /\ worker.pc = "next"
  /\ worker.taken < Len(stream_input)
  /\ stream_input[worker.taken + 1].ok
  /\ LET n == worker.taken + 1
         infer_request == stream_input[n].request
         found == find_output("infer", inference_store, dir.infer,
                              from_infer_request(infer_request),
                              get_match_config(request_matching))
     IN  IF found.found
         THEN /\ worker' = [Send(to_stream_response(n, found.output, infer_request),
                                 "done")
                              EXCEPT !.taken = n, !.request = infer_request]
              /\ UNCHANGED upstream_calls
         ELSE IF inference_service_client = "None"
              THEN /\ worker' = [Fail(StreamStatus(n, "NotFound"), "miss")
                                   EXCEPT !.taken = n, !.request = infer_request]
                   /\ UNCHANGED upstream_calls
              ELSE /\ worker' = [worker EXCEPT !.pc = "upstream", !.taken = n,
                                               !.request = infer_request]
                   /\ upstream_calls' = upstream_calls + 1
  /\ UNCHANGED << settings_vars, unary_vars, dir, inference_store, config_store,
                  stream_input, channel, rx_open, delivered >>

\* The upstream call fails: the error is sent in-band, the worker returns.
\* An upstream failure after which the worker goes on with the loop.
StreamUpstreamFailsAndGoesOn ==
  /\ worker.pc = "upstream"
  /\ \E code \in UpstreamErrors :
       worker' = [Send(StreamResponse(worker.taken, code, NoValue), "next")
                    EXCEPT !.failed = "upstream"]
  /\ UNCHANGED << settings_vars, unary_vars, dir, inference_store, config_store,
                  upstream_calls, stream_input, channel, rx_open, delivered >>

StreamUpstreamFails ==
  /\ worker.pc = "upstream"
  /\ \E code \in UpstreamErrors :
       worker' = Fail(StreamResponse(worker.taken, code, NoValue), "upstream")
  /\ UNCHANGED << settings_vars, unary_vars, dir, inference_store, config_store,
                  upstream_calls, stream_input, channel, rx_open, delivered >>

\* The upstream call answers.
StreamUpstreamAnswers ==
  /\ worker.pc = "upstream"
  /\ \E response \in InferResponses(worker.request) :
       worker' = [worker EXCEPT !.pc = "store", !.response = response]
  /\ UNCHANGED << settings_vars, unary_vars, dir, inference_store, config_store,
                  upstream_calls, stream_input, channel, rx_open, delivered >>

\* inference_store.store, up to the write lock; an error is sent in-band and
\* the worker returns.
StreamStoreNew ==
  /\ worker.pc = "store"
  /\ \E io \in {"ok", "write_failed"} :
       LET made == infer_new(dir.infer, from_infer_request(worker.request),
                             from_response(worker.response), io)
       IN  /\ dir' = [dir EXCEPT !.infer = made.files]
           /\ worker' = IF made.ok
                        THEN [worker EXCEPT !.pc = "push"]
                        ELSE Fail(StreamResponse(worker.taken, made.err, NoValue),
                                  "store")
  /\ UNCHANGED << settings_vars, unary_vars, inference_store, config_store,
                  upstream_calls, stream_input, channel, rx_open, delivered >>

\* A worker that returns after sending the upstream response.
StreamStorePushAndReturn ==
  /\ worker.pc = "push"
  /\ inference_store' =
       Append(inference_store, new_entry("infer", worker.request, worker.response))
  /\ worker' = Send(StreamResponse(worker.taken, "", ResponseValue(worker.response)),
                    "done")
  /\ UNCHANGED << settings_vars, unary_vars, dir, config_store, upstream_calls,
                  stream_input, channel, rx_open, delivered >>

\* inference_store.store under the write lock; the upstream response is sent
\* and the loop goes on.
StreamStorePush ==
  /\ worker.pc = "push"
  /\ inference_store' =
       Append(inference_store, new_entry("infer", worker.request, worker.response))
  /\ worker' = Send(StreamResponse(worker.taken, "", ResponseValue(worker.response)),
                    "next")
  /\ UNCHANGED << settings_vars, unary_vars, dir, config_store, upstream_calls,
                  stream_input, channel, rx_open, delivered >>

\* A send into a channel without a capacity.
StreamSendUnbounded ==
  /\ worker.pc = "send"
  /\ \/ /\ rx_open
        /\ channel' = Append(channel, worker.pending)
        /\ worker' = [worker EXCEPT !.pc = worker.after, !.pending = NoValue,
                                    !.after = ""]
     \/ /\ ~ rx_open
        /\ UNCHANGED channel
        /\ worker' = [worker EXCEPT !.pc = worker.after, !.pending = NoValue,
                                    !.after = "",
                                    !.send_failed = IF @ = 0 THEN worker.taken ELSE @]
  /\ UNCHANGED << settings_vars, unary_vars, dir, inference_store, config_store,
                  upstream_calls, stream_input, rx_open, delivered >>

\* tx.send(..).await completes: the message is queued when the receiver is
\* there and the channel has room; with the receiver gone the send fails,
\* which is logged or ignored.  Either way the worker goes on to `after`.
StreamSend ==
  /\ worker.pc = "send"
  /\ \/ /\ rx_open
        /\ Len(channel) < ChannelCapacity
        /\ channel' = Append(channel, worker.pending)
        /\ worker' = [worker EXCEPT !.pc = worker.after, !.pending = NoValue,
                                    !.after = ""]
     \/ /\ ~ rx_open
        /\ UNCHANGED channel
        /\ worker' = [worker EXCEPT !.pc = worker.after, !.pending = NoValue,
                                    !.after = "",
                                    !.send_failed = IF @ = 0 THEN worker.taken ELSE @]
  /\ UNCHANGED << settings_vars, unary_vars, dir, inference_store, config_store,
                  upstream_calls, stream_input, rx_open, delivered >>

\* The consumer takes the next response off the stream.
Receives ==
  /\ rx_open
  /\ channel # <<>>
  /\ delivered' = Append(delivered, Head(channel))
  /\ channel' = Tail(channel)
  /\ UNCHANGED << settings_vars, unary_vars, dir, inference_store, config_store,
                  upstream_calls, stream_input, worker, rx_open >>

\* The consumer drops the response stream (the client went away).
Hangup ==
  /\ rx_open
  /\ worker.pc # "done"
  /\ rx_open' = FALSE
  /\ channel' = <<>>
  /\ UNCHANGED << settings_vars, unary_vars, dir, inference_store, config_store,
                  upstream_calls, stream_input, worker, delivered >>

\* The response stream has ended for the consumer: tx is dropped and the
\* channel drained.
StreamClosed == worker.pc = "done" /\ channel = <<>> /\ rx_open

NextStream ==
  \/ StreamEnds
  \/ StreamErrs
  \/ StreamFind
  \/ StreamUpstreamFails
  \/ StreamUpstreamAnswers
  \/ StreamStoreNew
  \/ StreamStorePush
  \/ StreamSend
  \/ Receives
  \/ Hangup

SpecStream == InitStream /\ [][NextStream]_vars

(***************************************************************************)
(* A stream in Collect mode over an empty store, under a policy that       *)
(* compares the ids: five messages of five ids, of which none matches the  *)
(* entry of another, then a transport error.  The stream can end after any *)
(* of them.                                                                *)
(***************************************************************************)
LongStream ==
  << Message(InferRequest("r1", <<>>)), Message(InferRequest("r2", <<>>)),
     Message(InferRequest("r3", <<>>)), Message(InferRequest("r4", <<>>)),
     Message(InferRequest("r5", <<>>)), TransportError >>

InitChannel ==
  /\ mode = "Collect"
  /\ request_matching = RequestMatching(TRUE, "Disable", <<>>)
  /\ inference_service_client = connect(mode)
  /\ dir = [infer |-> <<>>, config |-> <<>>]
  /\ inference_store = <<>>
  /\ config_store = <<>>
  /\ upstream_calls = 0
  /\ NoUnary
  /\ stream_input \in {SubSeq(LongStream, 1, n) : n \in DOMAIN LongStream}
  /\ worker = [NoWorker EXCEPT !.pc = "next"]
  /\ channel = <<>>
  /\ rx_open = TRUE
  /\ delivered = <<>>

SpecChannel == InitChannel /\ [][NextStream]_vars

(***************************************************************************)
(* CacheStore<T> on its own: one caller inserting into a store over an     *)
(* empty directory, and the process restarting (a fresh CacheStore loaded   *)
(* over the same directory).  history is the log of the calls.             *)
(***************************************************************************)
\* One value of each Parameter variant, and a key without a value.
ParameterValues ==
  { NoParam, BoolParam(TRUE), Int64Param(1), Uint64Param(1), DoubleParam("1.5"),
    StringParam("a") }

\* Fingerprints without a top-level parameter and with k of each variant.
StoreInputs ==
  {from_infer_request(InferRequest("r1", <<>>))}
    \cup {from_infer_request(InferRequest("r1", <<Entry("k", v)>>)) :
            v \in ParameterValues}

\* Outputs without a parameter and with a parameter p.
StoreOutputs ==
  { from_response(InferResponse(InferRequest("r1", <<>>), <<>>, "None", << <<7>> >>)),
    from_response(InferResponse(InferRequest("r1", <<>>),
                                <<Entry("p", Uint64Param(1))>>, "None", << <<9>> >>)) }

\* Model names and versions: plain, empty, with '#', '/', '%', a space or a
\* '.', and one that reads as an escape.
KeyTexts ==
  { <<>>, <<"m">>, <<"1">>, <<"#">>, <<"%">>, <<".">>, <<"%", "2", "3">>,
    <<"m", "/", "n">>, <<"1", " ", "2">> }

StoreKeys == {[name |-> n, version |-> v] : n \in KeyTexts, v \in KeyTexts}

StorePairs(kind) ==
  IF kind = "infer"
  THEN {[input |-> i, output |-> o] : i \in StoreInputs, o \in StoreOutputs}
  ELSE ConfigPairs \cup {[input |-> k, output |-> [config |-> "C1"]] : k \in StoreKeys}

\* The file at path before or after a call, Absent when there is none.
Absent == [state |-> "absent"]
FileAt(files, path) == IF path \in DOMAIN files THEN files[path] ELSE Absent

InitStore ==
  /\ mode = "Collect"
  /\ request_matching = RequestMatching(FALSE, "Disable", <<>>)
  /\ inference_service_client = connect(mode)
  /\ dir = [infer |-> <<>>, config |-> <<>>]
  /\ inference_store = <<>>
  /\ config_store = <<>>
  /\ upstream_calls = 0
  /\ NoUnary
  /\ NoStream

\* CacheStore::store(input, output).
Insert(kind) ==
  /\ Len(history) < MaxCalls
  /\ \E pr \in StorePairs(kind), io \in {"ok", "write_failed"} :
       LET res == store(kind, dir[kind], store_of(kind), pr.input, pr.output, io)
       IN  /\ dir' = [dir EXCEPT ![kind] = res.files]
           /\ IF kind = "infer"
              THEN /\ inference_store' = res.mem
                   /\ UNCHANGED config_store
              ELSE /\ config_store' = res.mem
                   /\ UNCHANGED inference_store
           /\ history' = Append(history,
                [ op |-> "store", kind |-> kind, input |-> pr.input,
                  output |-> pr.output, path |-> res.path,
                  before |-> FileAt(dir[kind], res.path),
                  after |-> FileAt(res.files, res.path),
                  pushed |-> Len(res.mem) - Len(store_of(kind)),
                  ok |-> res.ok, err |-> res.err ])
  /\ UNCHANGED << settings_vars, stream_vars, tasks, upstream_calls >>

\* main after a restart: CacheStore::new and load for each kind.
Restart ==
  /\ Len(history) < MaxCalls
  /\ inference_store' \in load("infer", dir.infer)
  /\ config_store' \in load("config", dir.config)
  /\ history' = Append(history, [op |-> "load"])
  /\ UNCHANGED << settings_vars, stream_vars, dir, tasks, upstream_calls >>

NextStore ==
  \/ Insert("infer")
  \/ Insert("config")
  \/ Restart

SpecStore == InitStore /\ [][NextStore]_vars

(***************************************************************************)
(* The handlers with the RwLock of each store: a task waits at             *)
(* store.read().await and store.write().await until the lock is free, and *)
(* holds the guard until find_output or store returns.                     *)
(***************************************************************************)
\* The tasks that hold a guard of the store of a kind.
Holders(kind, guards) ==
  {u \in Tasks : tasks[u].kind = kind /\ tasks[u].guard \in guards}

InitLock ==
  /\ mode = "Collect"
  /\ request_matching = RequestMatching(FALSE, "Disable", <<>>)
  /\ inference_service_client = connect(mode)
  /\ dir = [infer |-> <<>>, config |-> <<>>]
  /\ inference_store = <<>>
  /\ config_store = <<>>
  /\ upstream_calls = 0
  /\ NoUnary
  /\ NoStream

\* find_output: self.store.read().await is granted while no task holds the
\* write guard.
ReadLock(t) ==
  /\ tasks[t].pc = "find"
  /\ tasks[t].guard = ""
  /\ Holders(tasks[t].kind, {"write"}) = {}
  /\ tasks' = [tasks EXCEPT ![t].guard = "read"]
  /\ UNCHANGED << settings_vars, stream_vars, dir, inference_store, config_store,
                  history, upstream_calls >>

\* find_output under the read guard.
LockedFind(t) ==
  /\ tasks[t].guard = "read"
  /\ Find(t)

\* store: self.store.write().await is granted while no task holds a guard.
WriteLock(t) ==
  /\ tasks[t].pc = "push"
  /\ tasks[t].guard = ""
  /\ Holders(tasks[t].kind, {"read", "write"}) = {}
  /\ tasks' = [tasks EXCEPT ![t].guard = "write"]
  /\ UNCHANGED << settings_vars, stream_vars, dir, inference_store, config_store,
                  history, upstream_calls >>

\* The push under the write guard.
LockedPush(t) ==
  /\ tasks[t].guard = "write"
  /\ StorePush(t)

NextLock ==
  \E t \in Tasks :
    \/ Receive(t)
    \/ ReadLock(t)
    \/ LockedFind(t)
    \/ UpstreamFails(t)
    \/ UpstreamAnswers(t)
    \/ StoreNew(t)
    \/ WriteLock(t)
    \/ LockedPush(t)

SpecLock == InitLock /\ [][NextLock]_vars

\* The runtime polls every task that can go on, the RwLock grants its
\* waiters in turn, and upstream ends every call with a response or an
\* error.
LockFairness ==
  \A t \in Tasks :
    /\ WF_vars(ReadLock(t))
    /\ WF_vars(LockedFind(t))
    /\ WF_vars(UpstreamFails(t) \/ UpstreamAnswers(t))
    /\ WF_vars(StoreNew(t))
    /\ WF_vars(WriteLock(t))
    /\ WF_vars(LockedPush(t))

SpecLockFair == InitLock /\ [][NextLock]_vars /\ LockFairness

(***************************************************************************)
(* The fingerprint and the file name of a request, for requests whose      *)
(* parameter maps arrive in one order or another.                          *)
(***************************************************************************)
\* The orders a map of at most two entries can arrive in.
EntryOrders(e1, e2) == { <<>>, <<e1>>, <<e2>>, <<e1, e2>>, <<e2, e1>> }

OrderRequests ==
  { [InferRequest("r1", ps) EXCEPT
       !.inputs = <<[Tensor("img") EXCEPT !.parameters = ips]>>,
       !.outputs = <<[name |-> "o", parameters |-> ops]>>] :
      ps \in EntryOrders(Entry("k", Int64Param(1)), Entry("j", NoParam)),
      ips \in EntryOrders(Entry("a", BoolParam(TRUE)), Entry("b", StringParam("a"))),
      ops \in EntryOrders(Entry("k", Uint64Param(2)), Entry("p", Int64Param(2))) }

InitOrder ==
  /\ mode = "Collect"
  /\ request_matching = RequestMatching(FALSE, "Disable", <<>>)
  /\ inference_service_client = connect(mode)
  /\ dir = [infer |-> <<>>, config |-> <<>>]
  /\ inference_store = <<>>
  /\ config_store = <<>>
  /\ upstream_calls = 0
  /\ NoUnary
  /\ NoStream

\* from_infer_request and get_file_name for two requests and the response
\* upstream gave to both.
Fingerprints ==
  /\ history = <<>>
  /\ \E first \in OrderRequests, second \in OrderRequests :
       \E response \in InferResponses(first) :
         LET output == from_response(response)
             one == from_infer_request(first)
             other == from_infer_request(second)
         IN  history' = << [ first |-> first, second |-> second,
                             one |-> one, other |-> other,
                             one_name |-> get_file_name(one, output_hash_of(output)),
                             other_name |-> get_file_name(other, output_hash_of(output)) ] >>
  /\ UNCHANGED << settings_vars, stream_vars, dir, inference_store, config_store,
                  tasks, upstream_calls >>

NextOrder == Fingerprints

SpecOrder == InitOrder /\ [][NextOrder]_vars

(***************************************************************************)
(* CacheStore<CachableModelInfer> within one process: start-up over the    *)
(* directory of an earlier run, then calls of store and find_output in any *)
(* order, under a policy that ignores the parameter k.                     *)
(***************************************************************************)
\* What the earlier run stored: a request whose parameter k is unsigned.
FindEarlier ==
  {[input |-> from_infer_request(InferRequest("r1", <<Entry("k", Uint64Param(1))>>)),
    output |-> o] : o \in StoreOutputs}

\* What the calls store and look up: fingerprints without k and with a
\* signed k.
FindInputs ==
  { from_infer_request(InferRequest("r1", <<>>)),
    from_infer_request(InferRequest("r1", <<Entry("k", Int64Param(1))>>)) }

InitFind ==
  /\ mode = "Collect"
  /\ request_matching = RequestMatching(FALSE, "IgnoreKeys", <<"k">>)
  /\ inference_service_client = connect(mode)
  /\ \E ps \in {x \in SUBSET FindEarlier : Cardinality(x) <= MaxInitFiles} :
       dir = [infer |-> WriteAll("infer", <<>>, ps), config |-> <<>>]
  /\ inference_store \in load("infer", dir.infer)
  /\ config_store = <<>>
  /\ upstream_calls = 0
  /\ NoUnary
  /\ NoStream

\* CacheStore::store(input, output).
CallStore ==
  /\ Len(history) < MaxFindCalls
  /\ \E input \in FindInputs, output \in StoreOutputs, io \in {"ok", "write_failed"} :
       LET res == store("infer", dir.infer, inference_store, input, output, io)
       IN  /\ dir' = [dir EXCEPT !.infer = res.files]
           /\ inference_store' = res.mem
           /\ history' = Append(history,
                [ op |-> "store", input |-> input, found |-> FALSE,
                  output |-> output, ok |-> res.ok ])
  /\ UNCHANGED << settings_vars, stream_vars, config_store, tasks, upstream_calls >>

\* CacheStore::find_output(match_input, config).
CallFind ==
  /\ Len(history) < MaxFindCalls
  /\ \E input \in FindInputs :
       LET found == find_output("infer", inference_store, dir.infer, input,
                                get_match_config(request_matching))
       IN  history' = Append(history,
             [ op |-> "find_output", input |-> input, found |-> found.found,
               output |-> IF found.found THEN found.output ELSE NoValue,
               ok |-> TRUE ])
  /\ UNCHANGED << settings_vars, stream_vars, dir, inference_store, config_store,
                  tasks, upstream_calls >>

NextFind ==
  \/ CallStore
  \/ CallFind

SpecFind == InitFind /\ [][NextFind]_vars

(***************************************************************************)
(* Unary calls in Collect mode over a directory in which, after start-up,  *)
(* something outside the process removed an infer file or overwrote it     *)
(* with bytes that do not parse.  The policy is the default one.           *)
(***************************************************************************)
Damaged(files) ==
  {Restrict(files, DOMAIN files \ {path}) : path \in DOMAIN files}
    \cup {[q \in DOMAIN files |-> IF q = path THEN PartialBody ELSE files[q]] :
            path \in DOMAIN files}

InitDamage ==
  /\ mode = "Collect"
  /\ request_matching = RequestMatching(FALSE, "Disable", <<>>)
  /\ inference_service_client = connect(mode)
  /\ \E before \in EarlierRuns :
       /\ before.config = <<>>
       /\ inference_store \in load("infer", before.infer)
       /\ config_store \in load("config", before.config)
       /\ \E files \in Damaged(before.infer) :
            dir = [before EXCEPT !.infer = files]
  /\ upstream_calls = 0
  /\ NoUnary
  /\ NoStream

SpecDamage == InitDamage /\ [][Next]_vars

(***************************************************************************)
(* Start-up over a directory that holds, next to the files of an earlier   *)
(* run, a file the store did not write or did not finish writing.          *)
(***************************************************************************)
\* An infer file name whose last 16 characters before the extension are no
\* hexadecimal digits.
NotHexName(input) ==
  << Lit("infer-"), Hex(inputs_hash(input)), Lit("#"), Hex(outputs_hash(input)),
     Lit("#"), Hex(metadata_hash(input)), Lit("#"), Lit("xxxxxxxxxxxxxxxx"),
     Lit(".inferstore") >>

\* The files found next to those of the earlier run: none; a config file
\* without a '#' in its name; a config file cut short; an infer file whose
\* name has no output digest; an infer file cut short.
StrayFiles ==
  LET input == from_infer_request(InferRequest("r1", <<>>))
      output == from_response(InferResponse(InferRequest("r1", <<>>), <<>>,
                                            "None", << <<7>> >>))
  IN  { [infer |-> <<>>, config |-> <<>>],
        [infer |-> <<>>,
         config |-> (Chars("config-") \o <<"m">> \o Chars(".inferstore"))
                      :> JsonBody([config |-> "C1"])],
        [infer |-> <<>>,
         config |-> config_file_name(<<"m">>, <<"2">>) :> PartialBody],
        [infer |-> NotHexName(input)
                     :> JsonBody([input |-> JsonInput(input),
                                  output |-> JsonOutput(output)]),
         config |-> <<>>],
        [infer |-> get_file_name(input, output_hash_of(output)) :> PartialBody,
         config |-> <<>>] }

InitLoad ==
  /\ mode \in {"Collect", "Serve"}
  /\ request_matching = RequestMatching(FALSE, "Disable", <<>>)
  /\ inference_service_client = connect(mode)
  /\ \E earlier \in EarlierRuns, stray \in StrayFiles :
       dir = [infer |-> stray.infer @@ earlier.infer,
              config |-> stray.config @@ earlier.config]
  /\ inference_store = <<>>
  /\ config_store = <<>>
  /\ upstream_calls = 0
  /\ NoUnary
  /\ NoStream

\* main: CacheStore::new and load for each kind; a panic in load ends the
\* process.
LoadStores ==
  /\ history = <<>>
  /\ IF load_panics("infer", dir.infer) \/ load_panics("config", dir.config)
     THEN /\ history' = <<[op |-> "load", panicked |-> TRUE]>>
          /\ UNCHANGED << inference_store, config_store >>
     ELSE /\ inference_store' \in load("infer", dir.infer)
          /\ config_store' \in load("config", dir.config)
          /\ history' = <<[op |-> "load", panicked |-> FALSE]>>
  /\ UNCHANGED << settings_vars, stream_vars, dir, tasks, upstream_calls >>

NextLoad == LoadStores

SpecLoad == InitLoad /\ [][NextLoad]_vars

(***************************************************************************)
(* ProcessedInput::matches under the settings' policy, on its own.         *)
(***************************************************************************)
\* Fingerprints that differ in top-level parameters only, one of them with
\* a double parameter that is not a number, fingerprints of another model
\* name, model version and content, fingerprints that differ in the
\* parameters of the requested output, and fingerprints
\* of requests with one more requested output and with one more input
\* tensor, whose data is not in raw_input_contents, and fingerprints whose
\* tensors are in another order, of another name, datatype or shape.
MatchInputs ==
  {from_infer_request(InferRequest("r1", ps)) :
     ps \in { <<>>, <<Entry("k", Int64Param(1))>>, <<Entry("k", Int64Param(2))>>,
              <<Entry("j", Int64Param(1))>>,
              <<Entry("j", Int64Param(1)), Entry("k", Int64Param(1))>>,
              <<Entry("j", Int64Param(1)), Entry("k", Int64Param(2))>> }}
    \cup { from_infer_request(
             [InferRequest("r1", <<>>) EXCEPT !.outputs = <<[name |-> "o", parameters |-> ops]>>]) :
           ops \in { <<Entry("k", Int64Param(1))>>, <<Entry("k", Int64Param(2))>>,
                     <<Entry("k", Int64Param(1)), Entry("p", Int64Param(1))>> } }
    \cup { from_infer_request(InferRequest("r1", <<Entry("k", DoubleParam("NaN"))>>)),
           from_infer_request([InferRequest("r1", <<>>) EXCEPT !.model_name = "n"]),
           from_infer_request([InferRequest("r1", <<>>) EXCEPT !.model_version = "2"]),
           from_infer_request(
             [InferRequest("r1", <<>>) EXCEPT !.raw_input_contents = << <<255, 128, 2>> >>]),
           from_infer_request(
             [InferRequest("r1", <<>>) EXCEPT
                !.outputs = Append(@, [name |-> "o2", parameters |-> <<>>])]),
           from_infer_request(
             [InferRequest("r1", <<>>) EXCEPT !.inputs = Append(@, Tensor("aux"))]) }
    \cup { from_infer_request([InferRequest("r1", <<>>) EXCEPT !.inputs = ins]) :
           ins \in { <<Tensor("aux"), Tensor("img")>>,
                     <<Tensor("aux")>>,
                     <<[Tensor("img") EXCEPT !.datatype = "INT64"]>>,
                     <<[Tensor("img") EXCEPT !.shape = <<3, 2, 1>>]>> } }
    \cup { from_infer_request([InferRequest("r1", <<>>) EXCEPT !.outputs = outs]) :
           outs \in { << [name |-> "o2", parameters |-> <<>>],
                         [name |-> "o", parameters |-> <<>>] >>,
                      << [name |-> "o2", parameters |-> <<>>] >> } }

MatchPolicies ==
  {RequestMatching(FALSE, pm, keys) :
     pm \in ParameterMatching, keys \in {<<>>, <<"k">>, <<"j">>}}
    \cup {[RequestMatching(FALSE, pm, <<>>) EXCEPT !.match_pruned_output = TRUE] :
            pm \in ParameterMatching}
    \cup {[RequestMatching(FALSE, "MatchKeys", <<>>) EXCEPT
             !.output_parameter_matching = pm, !.output_parameter_keys = keys] :
            pm \in {"MatchKeys", "IgnoreKeys"},
            keys \in {[name \in {} |-> <<>>], [name \in {"o"} |-> <<"k">>]}}

InitMatch ==
  /\ mode = "Serve"
  /\ request_matching \in MatchPolicies
  /\ inference_service_client = connect(mode)
  /\ dir = [infer |-> <<>>, config |-> <<>>]
  /\ inference_store = <<>>
  /\ config_store = <<>>
  /\ upstream_calls = 0
  /\ NoUnary
  /\ NoStream

\* entry.matches(input, &settings.get_match_config()) for a cached
\* fingerprint self and a request's fingerprint other.
Matches ==
  /\ history = <<>>
  /\ \E self \in MatchInputs, other \in MatchInputs :
       history' = << [ self |-> self, other |-> other,
                       result |-> matches(self, other,
                                          get_match_config(request_matching)) ] >>
  /\ UNCHANGED << settings_vars, stream_vars, dir, inference_store, config_store,
                  tasks, upstream_calls >>

NextMatch == Matches

SpecMatch == InitMatch /\ [][NextMatch]_vars

(***************************************************************************)
(* Properties.                                                             *)
(***************************************************************************)
Calls == DOMAIN history

\* Some in-memory entry of the call's kind matches the call's request under
\* the active policy.
SomeEntryMatches(h) ==
  \E i \in DOMAIN store_of(h.kind) :
    T_matches(h.kind, store_of(h.kind)[i], match_input(h.kind, h.request),
              match_config(h.kind))

\* C1: in Serve mode the upstream client is never contacted, and a call
\* whose request matches no entry under the active policy returned NotFound
\* (ModelInfer) or Unavailable (ModelConfig).
C1_ModeEnforcement ==
  mode = "Serve" =>
    /\ upstream_calls = 0
    /\ \A c \in Calls :
         /\ ~ history[c].upstream
         /\ ~ SomeEntryMatches(history[c]) =>
              /\ ~ history[c].result.ok
              /\ history[c].result.code =
                   (IF history[c].kind = "infer" THEN "NotFound" ELSE "Unavailable")

\* Serve mode, after a ModelInfer and a ModelConfig that matched no entry.
C1_Witness ==
  /\ mode = "Serve"
  /\ \E c \in Calls :
       /\ history[c].kind = "infer"
       /\ ~ SomeEntryMatches(history[c])
       /\ history[c].result.code = "NotFound"
  /\ \E c \in Calls :
       /\ history[c].kind = "config"
       /\ ~ SomeEntryMatches(history[c])
       /\ history[c].result.code = "Unavailable"

\* Call d is a second request identical to that of call c: a ModelInfer that
\* missed, was answered by upstream and was persisted, and had returned when
\* d arrived.
RepeatsPersisted(c, d) ==
  /\ mode = "Collect"
  /\ c < d
  /\ history[c].kind = "infer"
  /\ history[d].kind = "infer"
  /\ history[c].upstream
  /\ history[c].stored = "Ok"
  /\ history[d].request = history[c].request
  /\ history[d].started >= c

\* C2: in Collect mode, a second request identical to one that missed, was
\* answered by upstream and was persisted is answered with a response equal
\* to the first, without a call upstream.
C2_CacheAside ==
  \A c \in Calls, d \in Calls :
    RepeatsPersisted(c, d) =>
      /\ history[d].result = history[c].result
      /\ ~ history[d].upstream

\* The second request was answered from the cache, with another response
\* than the first.
C2_Witness ==
  \E c \in Calls, d \in Calls :
    /\ RepeatsPersisted(c, d)
    /\ history[d].found.found
    /\ history[d].result.ok
    /\ history[d].result # history[c].result

\* Scenario S5: Serve mode, a stream of two messages, the first matched by
\* an entry whose output is read, the second matched by no entry.
S5 ==
  /\ mode = "Serve"
  /\ Len(stream_input) = 2
  /\ stream_input[1].ok
  /\ stream_input[2].ok
  /\ find_output("infer", inference_store, dir.infer,
                 from_infer_request(stream_input[1].request),
                 get_match_config(request_matching)).found
  /\ \A i \in DOMAIN inference_store :
       ~ infer_matches(inference_store[i],
                       from_infer_request(stream_input[2].request),
                       get_match_config(request_matching))

\* C3: in scenario S5 the response stream has closed only after the cached
\* response to the first message and then a NotFound status for the second
\* were streamed back.
C3_StreamS5 ==
  (S5 /\ StreamClosed) =>
    /\ Len(delivered) = 2
    /\ delivered[1].status = "Ok"
    /\ delivered[1].input = 1
    /\ delivered[2].status = "NotFound"
    /\ delivered[2].input = 2

\* Scenario S5, the stream closed after the first response alone.
C3_Witness ==
  /\ S5
  /\ StreamClosed
  /\ Len(delivered) = 1
  /\ delivered[1].status = "Ok"
  /\ worker.taken = 1

\* The CacheStore::store calls of the log.
Inserts == {c \in Calls : history[c].op = "store"}

\* C4: an insert whose file name already exists on disk returns success and
\* does not append to the in-memory sequence.
C4_DuplicateIsNoOp ==
  \A c \in Inserts :
    history[c].before # Absent =>
      /\ history[c].ok
      /\ history[c].pushed = 0

\* An insert met its file name on disk and returned an error.
C4_Witness ==
  \E c \in Inserts :
    /\ history[c].before # Absent
    /\ ~ history[c].ok
    /\ history[c].err = "AlreadyExists"

\* Call c went upstream and the upstream call failed.
UpstreamFailed(c) ==
  /\ history[c].upstream
  /\ history[c].response \in {UpstreamError(code) : code \in UpstreamErrors}

\* Call c went upstream and got a response.
UpstreamAnswered(c) ==
  /\ history[c].upstream
  /\ history[c].response # NoValue
  /\ ~ UpstreamFailed(c)

\* Calls c and d are concurrent identical requests in Collect mode that both
\* missed and both got the same answer from upstream, and no write failed.
ConcurrentTwins(c, d) ==
  /\ mode = "Collect"
  /\ c < d
  /\ history[d].started < c
  /\ history[c].kind = history[d].kind
  /\ history[c].request = history[d].request
  /\ UpstreamAnswered(c)
  /\ UpstreamAnswered(d)
  /\ history[c].response = history[d].response
  /\ history[c].stored # "Io"
  /\ history[d].stored # "Io"

\* C5: two concurrent identical requests in Collect mode that both missed
\* and both got the same upstream response both return that response.
C5_ConcurrentDuplicates ==
  \A c \in Calls, d \in Calls :
    ConcurrentTwins(c, d) =>
      /\ history[c].result = Ok(miss_reply(history[c].kind, history[c].response))
      /\ history[d].result = Ok(miss_reply(history[d].kind, history[d].response))

\* The loser of the race returned Unknown (ModelInfer).
C5_WitnessInfer ==
  \E c \in Calls, d \in Calls :
    /\ ConcurrentTwins(c, d)
    /\ history[c].kind = "infer"
    /\ history[d].stored = "AlreadyExists"
    /\ history[d].result = Err("Unknown")

\* The loser of the race panicked (ModelConfig).
C5_WitnessConfig ==
  \E c \in Calls, d \in Calls :
    /\ ConcurrentTwins(c, d)
    /\ history[c].kind = "config"
    /\ history[d].stored = "AlreadyExists"
    /\ history[d].result = Panicked

\* The store was loaded afresh by the last call of the log.
JustLoaded == history # <<>> /\ history[Len(history)].op = "load"

\* An in-memory entry of call c's kind has c's input as its input and c's
\* output as what get_output returns.
Reloaded(c) ==
  \E i \in DOMAIN store_of(history[c].kind) :
    LET entry == store_of(history[c].kind)[i]
        got == T_get_output(history[c].kind, dir[history[c].kind], entry)
    IN  /\ entry.input = history[c].input
        /\ got.ok
        /\ got.output = history[c].output

\* C6: an entry written by a successful insert and then loaded by a fresh
\* CacheStore over the directory has the original fingerprint as its input
\* and the original response as its output.
C6_EntryRoundTrip ==
  JustLoaded => \A c \in Inserts : history[c].ok => Reloaded(c)

\* A written fingerprint with a Uint64 parameter came back as another.
C6_Witness ==
  /\ JustLoaded
  /\ \E c \in Inserts :
       /\ history[c].ok
       /\ history[c].kind = "infer"
       /\ "k" \in DOMAIN history[c].input.parameters
       /\ history[c].input.parameters["k"] = Uint64Param(1)
       /\ ~ Reloaded(c)
       /\ \E i \in DOMAIN inference_store :
            inference_store[i].input.parameters["k"] = Int64Param(1)

\* The value of key in a parameter map, Missing when the map has no such
\* key.
Missing == [t |-> "Missing", n |-> 0, s |-> ""]
ParamAt(m, key) == IF key \in DOMAIN m THEN m[key] ELSE Missing

\* Fingerprints a and b differ in the top-level parameter key and in nothing
\* else.
DiffersOnlyIn(a, b, key) ==
  /\ ParamAt(a.parameters, key) # ParamAt(b.parameters, key)
  /\ \A o \in (DOMAIN a.parameters \cup DOMAIN b.parameters) \ {key} :
       ParamAt(a.parameters, o) = ParamAt(b.parameters, o)
  /\ [a EXCEPT !.parameters = <<>>] = [b EXCEPT !.parameters = <<>>]

\* C7: fingerprints that differ in one top-level parameter k only match
\* exactly when parameterMatching is IgnoreKeys with k among the keys,
\* MatchKeys with k not among the keys, or Disable.
C7_MatchPolicy ==
  \A c \in Calls, key \in {"j", "k"} :
    DiffersOnlyIn(history[c].self, history[c].other, key) =>
      ( history[c].result <=>
          \/ /\ request_matching.parameter_matching = "IgnoreKeys"
             /\ key \in SeqToSet(request_matching.parameter_keys)
          \/ /\ request_matching.parameter_matching = "MatchKeys"
             /\ key \notin SeqToSet(request_matching.parameter_keys)
          \/ request_matching.parameter_matching = "Disable" )

\* Under Disable, fingerprints that differ in k only did not match.
C7_Witness ==
  /\ request_matching.parameter_matching = "Disable"
  /\ \E c \in Calls :
       /\ DiffersOnlyIn(history[c].self, history[c].other, "k")
       /\ ~ history[c].result

\* C8: an output find_output returned is the output of the in-memory entry
\* that answered, and that entry matches the input under the policy.
C8_FindSound ==
  \A c \in Calls :
    history[c].found.found =>
      LET kind == history[c].kind
          entry == store_of(kind)[history[c].found.index]
      IN  /\ history[c].found.index \in DOMAIN store_of(kind)
          /\ T_matches(kind, entry, match_input(kind, history[c].request),
                       match_config(kind))
          /\ T_get_output(kind, dir[kind], entry).ok
          /\ T_get_output(kind, dir[kind], entry).output = history[c].found.output

\* find_output passed over an entry that does not match and answered with
\* the second.
C8_Witness ==
  \E c \in Calls :
    /\ history[c].found.found
    /\ history[c].found.index = 2
    /\ ~ T_matches(history[c].kind, store_of(history[c].kind)[1],
                   match_input(history[c].kind, history[c].request),
                   match_config(history[c].kind))

\* The in-memory sequence of a kind and the files of that kind correspond
\* one to one: the entries stand for distinct files, and those are the files
\* of the directory.
Agreement(kind) ==
  LET mem == store_of(kind)
  IN  /\ \A i \in DOMAIN mem, j \in DOMAIN mem :
           i # j => T_file_name(kind, mem[i]) # T_file_name(kind, mem[j])
      /\ {T_file_name(kind, mem[i]) : i \in DOMAIN mem} = DOMAIN dir[kind]

\* C9: when no insert met an error, the in-memory sequence of each store and
\* the directory's files of its kind are equal as multisets.
C9_MemoryDiskAgreement ==
  (\A c \in Inserts : history[c].ok) => Agreement("infer") /\ Agreement("config")

\* After an insert and a load without error, an entry stands for a file
\* that is not in the directory.
C9_Witness ==
  /\ \A c \in Inserts : history[c].ok
  /\ JustLoaded
  /\ \E i \in DOMAIN inference_store :
       T_file_name("infer", inference_store[i]) \notin DOMAIN dir.infer

\* Insert d follows a successful insert c of the same arguments.
SecondInsert(c, d) ==
  /\ c \in Inserts
  /\ d \in Inserts
  /\ c < d
  /\ history[c].ok
  /\ history[c].kind = history[d].kind
  /\ history[c].input = history[d].input
  /\ history[c].output = history[d].output

\* C10: a second insert with equal arguments targets the same file name and
\* leaves that file, which is in the directory, as it was.
C10_WriteOnce ==
  \A c \in Calls, d \in Calls :
    SecondInsert(c, d) =>
      /\ history[d].path = history[c].path
      /\ history[d].before = history[c].after
      /\ history[d].after = history[d].before
      /\ history[d].path \in DOMAIN dir[history[d].kind]
      /\ dir[history[d].kind][history[d].path] = history[c].after

\* A second insert with equal arguments was made, and create_new refused it.
C10_Witness ==
  \E c \in Calls, d \in Calls :
    /\ SecondInsert(c, d)
    /\ history[d].err = "AlreadyExists"

\* C11: find_output answers with the output of the earliest entry, in
\* insertion order, that matches and whose get_output succeeds, passing over
\* matching entries whose get_output fails, and answers none only when no
\* matching entry has a readable output.
C11_FirstMatch ==
  \A c \in Calls :
    LET seen == history[c].found
        kind == history[c].kind
    IN  IF seen.candidates = {}
        THEN ~ seen.found
        ELSE /\ seen.found
             /\ seen.index \in seen.candidates
             /\ \A i \in seen.candidates : seen.index <= i
             /\ seen.output =
                  T_get_output(kind, dir[kind], store_of(kind)[seen.index]).output

\* find_output passed over a matching entry whose output could not be read
\* and answered with the second entry.
C11_Witness ==
  \E c \in Calls :
    /\ history[c].found.found
    /\ history[c].found.index = 2
    /\ 1 \notin history[c].found.candidates
    /\ T_matches(history[c].kind, store_of(history[c].kind)[1],
                 match_input(history[c].kind, history[c].request),
                 match_config(history[c].kind))

\* The responses sent so far that the consumer has or can still take.
Sent == delivered \o channel

\* A message that reports a failure: a status, or a response with an error
\* message and no inference response.
IsFailure(message) ==
  \/ message.status # "Ok"
  \/ message.error_message # "" /\ message.infer_response = NoValue

\* C12: once the stream worker met an upstream error, a transport error, a
\* persistence error or a miss in Serve mode on an input, it only sends the
\* one message for that input and ends: it takes no later input, and when it
\* has ended with the consumer still there, the responses sent end with
\* exactly one message for that input, a failure message.
C12_StreamEndsOnFailure ==
  worker.failed # "" =>
    /\ worker.pc \in {"send", "done"}
    /\ worker.failed = "miss" => inference_service_client = "None"
    /\ worker.failed \in {"upstream", "store"} => inference_service_client = "Some"
    /\ \A i \in DOMAIN Sent : Sent[i].input <= worker.taken
    /\ worker.pc = "send" =>
         /\ worker.after = "done"
         /\ IsFailure(worker.pending)
         /\ worker.pending.input = worker.taken
         /\ \A i \in DOMAIN Sent : Sent[i].input < worker.taken
    /\ (worker.pc = "done" /\ rx_open) =>
         /\ Sent # <<>>
         /\ IsFailure(Sent[Len(Sent)])
         /\ Sent[Len(Sent)].input = worker.taken
         /\ \A i \in DOMAIN Sent : i < Len(Sent) => Sent[i].input < worker.taken

\* The stream closed on an upstream error met on the second input, after
\* the response to the first and the one message for the second were taken.
C12_Witness ==
  /\ worker.failed = "upstream"
  /\ worker.taken = 2
  /\ StreamClosed
  /\ Len(delivered) = 2
  /\ ~ IsFailure(delivered[1])
  /\ IsFailure(delivered[2])

\* C13: once a send of the stream worker failed on a closed channel, the
\* worker takes no further input message (so it makes no further upstream
\* call and no further insert).
C13_ClosedChannel == worker.send_failed # 0 => worker.taken = worker.send_failed

\* After the response to the first input was sent into a closed channel, the
\* worker took the second input and called upstream for it.
C13_Witness ==
  /\ worker.send_failed = 1
  /\ worker.taken = 2
  /\ worker.pc = "upstream"
  /\ ~ rx_open


\* C14: when the upstream call of a unary ModelInfer fails, the handler
\* returns a status with the code upstream answered, and neither the
\* directory nor a store changes in that step.
C14_InferUpstreamFailure ==
  [][\A t \in Tasks :
       ( /\ tasks[t].pc = "upstream"
         /\ tasks[t].kind = "infer"
         /\ tasks'[t].pc = "idle" ) =>
       /\ Len(history') = Len(history) + 1
       /\ \E code \in UpstreamErrors :
            /\ history'[Len(history')].response = UpstreamError(code)
            /\ history'[Len(history')].result = Err(code)
       /\ UNCHANGED << dir, inference_store, config_store >>]_vars

\* A ModelInfer call in Collect mode whose upstream call failed with
\* InvalidArgument has returned.
C14_Witness ==
  \E c \in Calls :
    /\ mode = "Collect"
    /\ history[c].kind = "infer"
    /\ UpstreamFailed(c)
    /\ history[c].response = UpstreamError("InvalidArgument")
    /\ history[c].result = Err("InvalidArgument")
    /\ history[c].stored = ""


\* C15: when the upstream call of a ModelConfig fails, the handler returns
\* a status with the code upstream answered.
C15_ConfigUpstreamFailure ==
  \A c \in Calls :
    ( /\ history[c].kind = "config"
      /\ UpstreamFailed(c) ) =>
    history[c].result = Err(history[c].response.error)

\* A ModelConfig call in Collect mode whose upstream call failed with
\* Internal has returned Unknown.
C15_Witness ==
  \E c \in Calls :
    /\ mode = "Collect"
    /\ history[c].kind = "config"
    /\ history[c].response = UpstreamError("Internal")
    /\ history[c].result = Err("Unknown")

\* Call c got a response from upstream and its CacheStore::store failed.
StoreFailed(c) ==
  /\ UpstreamAnswered(c)
  /\ history[c].stored \notin {"", "Ok"}

\* C16: a unary call whose insert failed after a successful upstream call
\* returns a status with code Unknown.
C16_PersistenceFailureIsUnknown ==
  \A c \in Calls : StoreFailed(c) => history[c].result = Err("Unknown")

\* A ModelConfig call whose file could not be written has panicked.
C16_Witness ==
  \E c \in Calls :
    /\ history[c].kind = "config"
    /\ StoreFailed(c)
    /\ history[c].stored = "Io"
    /\ history[c].result = Panicked


\* The files of a kind that load can turn into an entry.
Loadable(kind) ==
  {path \in DOMAIN dir[kind] :
     /\ T_matches_file_name(kind, path)
     /\ T_from_file(kind, dir[kind], path).ok}

\* The files of a kind whose name matches and that from_file cannot turn
\* into an entry.
Corrupt(kind) ==
  {path \in DOMAIN dir[kind] :
     /\ T_matches_file_name(kind, path)
     /\ ~ T_from_file(kind, dir[kind], path).ok}

\* C17: load over a directory that holds a file whose name matches and that
\* cannot be turned into an entry returns, and each store then holds the
\* entries of exactly the files that can.
C17_LoadToleratesCorruption ==
  ( /\ history # <<>>
    /\ \E kind \in {"infer", "config"} : Corrupt(kind) # {} ) =>
  /\ ~ history[1].panicked
  /\ \A kind \in {"infer", "config"} :
       /\ Len(store_of(kind)) = Cardinality(Loadable(kind))
       /\ {store_of(kind)[i] : i \in DOMAIN store_of(kind)}
            = {T_from_file(kind, dir[kind], path).entry : path \in Loadable(kind)}

\* Start-up has panicked over a directory with a config file whose body
\* parses and whose name has no '#'.
C17_Witness ==
  /\ history # <<>>
  /\ history[1].panicked
  /\ \E path \in Corrupt("config") :
       /\ dir.config[path].state = "json"
       /\ "#" \notin {path[i] : i \in DOMAIN path}


\* Call c is a ModelConfig call that went upstream and returned the
\* config upstream answered with.
ConfigAnswered(c) ==
  /\ history[c].kind = "config"
  /\ UpstreamAnswered(c)
  /\ history[c].result = Ok(history[c].response)

\* Call d is a ModelConfig call that returned config from the store,
\* without an upstream call.
ConfigFromStore(d, config) ==
  /\ history[d].found.found
  /\ ~ history[d].upstream
  /\ history[d].result = Ok(config)

ConfigWritten ==
  {c \in Inserts : history[c].kind = "config" /\ history[c].after.state = "json"
                     /\ history[c].ok}

\* C19: the file written for (name, version) is read back by from_file as
\* an entry with that name and version, a load holds the entries of
\* exactly the keys written, and inserts of different keys write files of
\* different names.
C19_ConfigKeyRoundTrip ==
  /\ \A c \in ConfigWritten :
       LET read == config_from_file(dir.config, history[c].path)
       IN  /\ read.ok
           /\ read.entry.input = history[c].input
  /\ JustLoaded =>
       {config_store[i].input : i \in DOMAIN config_store}
         = {history[c].input : c \in ConfigWritten}
  /\ \A c \in Inserts, d \in Inserts :
       ( /\ history[c].kind = "config"
         /\ history[d].kind = "config"
         /\ history[c].input # history[d].input ) =>
       history[c].path # history[d].path

\* The config of ("m/n", "1 2") was written to config-m%2Fn#1%202.inferstore
\* and a load has read it back under that key.
C19_Witness ==
  /\ JustLoaded
  /\ \E c \in ConfigWritten :
       /\ history[c].input = [name |-> <<"m", "/", "n">>, version |-> <<"1", " ", "2">>]
       /\ history[c].path = Chars("config-") \o <<"m", "%", "2", "F", "n", "#">>
                               \o <<"1", "%", "2", "0", "2">> \o Chars(".inferstore")
       /\ \E i \in DOMAIN config_store : config_store[i].input = history[c].input


\* C20: matches(a, b) under a policy equals matches(b, a) under it.
C20_MatchSymmetric ==
  history # <<>> =>
    history[1].result = matches(history[1].other, history[1].self,
                                get_match_config(request_matching))

\* A fingerprint has matched one that has its tensors and one requested
\* output more, which does not match it.
C20_Witness ==
  /\ history # <<>>
  /\ history[1].result
  /\ history[1].self.inputs = history[1].other.inputs
  /\ TensorNames(history[1].other.outputs) = TensorNames(history[1].self.outputs) \cup {"o2"}
  /\ "o2" \notin TensorNames(history[1].self.outputs)
  /\ ~ matches(history[1].other, history[1].self, get_match_config(request_matching))


\* The cached fingerprint of the step has the requested outputs of the
\* request's fingerprint and more, and is equal to it in all else.
PrunedRequest ==
  /\ history # <<>>
  /\ [history[1].self EXCEPT !.outputs = <<>>] = [history[1].other EXCEPT !.outputs = <<>>]
  /\ \A i \in DOMAIN history[1].other.outputs :
       \E j \in DOMAIN history[1].self.outputs :
         history[1].self.outputs[j] = history[1].other.outputs[i]
  /\ TensorNames(history[1].self.outputs) # TensorNames(history[1].other.outputs)

\* C21: with match_pruned_output set, a cached fingerprint whose requested
\* outputs are a superset of the request's, all else equal, matches it.
C21_PrunedOutputMatches ==
  (request_matching.match_pruned_output /\ PrunedRequest) => history[1].result

\* With match_pruned_output set, the entry that requested o and o2 has not
\* matched the request for o alone.
C21_Witness ==
  /\ request_matching.match_pruned_output
  /\ get_match_config(request_matching).match_pruned_output
  /\ PrunedRequest
  /\ TensorNames(history[1].self.outputs) = {"o", "o2"}
  /\ TensorNames(history[1].other.outputs) = {"o"}
  /\ ~ history[1].result


\* The wire parameters are those of the stored map: the same keys, each
\* value the stored one.
SameParameters(wire, stored) ==
  /\ DOMAIN wire = DOMAIN stored
  /\ \A k \in DOMAIN wire : from_infer_parameter(wire[k]) = stored[k]

\* C22: the reply of a ModelInfer hit has the model name, model version
\* and id of the incoming request, and the parameters, output tensor
\* metadata and raw output buffers of the output read from the store.
C22_HitMaterialization ==
  \A c \in Calls :
    (history[c].kind = "infer" /\ history[c].found.found) =>
      LET reply == history[c].result.value
          stored == history[c].found.output
          request == history[c].request
      IN  /\ history[c].result.ok
          /\ reply.model_name = request.model_name
          /\ reply.model_version = request.model_version
          /\ reply.id = request.id
          /\ SameParameters(reply.parameters, stored.parameters)
          /\ DOMAIN reply.outputs = DOMAIN stored.outputs
          /\ \A i \in DOMAIN reply.outputs :
               /\ reply.outputs[i].name = stored.outputs[i].name
               /\ reply.outputs[i].datatype = stored.outputs[i].datatype
               /\ reply.outputs[i].shape = stored.outputs[i].shape
               /\ SameParameters(reply.outputs[i].parameters,
                                 stored.outputs[i].parameters)
          /\ reply.raw_output_contents = stored.raw_output_contents

\* A request with id r2 was answered from the entry made for r1, whose
\* output has a parameter.
C22_Witness ==
  \E c \in Calls :
    /\ history[c].kind = "infer"
    /\ history[c].found.found
    /\ history[c].request.id = "r2"
    /\ inference_store[history[c].found.index].input.id = "r1"
    /\ history[c].result.ok
    /\ history[c].result.value.id = "r2"
    /\ DOMAIN history[c].found.output.parameters = {"p"}


\* The inserts of infer entries.
InferInserts == {c \in Inserts : history[c].kind = "infer"}

\* C23 as stated: the file name of an infer entry has 84 characters and its
\* third block of 16 hexadecimal characters is the hash of the response.
C23_ThirdBlockIsResponseHash ==
  \A c \in InferInserts :
    /\ NameLen(history[c].path) = 84
    /\ IsHexSlice(history[c].path, 40, 56)
    /\ HexSlice(history[c].path, 40, 56) = output_hash_of(history[c].output)

\* C23 as amended: the file name of an infer entry has 84 characters and
\* its fourth block of 16 hexadecimal characters is the hash of the
\* response, which a load reads back as the entry's output hash.
C23_FourthBlockIsResponseHash ==
  /\ \A c \in InferInserts :
       /\ NameLen(history[c].path) = 84
       /\ infer_matches_file_name(history[c].path)
       /\ IsHexSlice(history[c].path, 57, 73)
       /\ HexSlice(history[c].path, 57, 73) = output_hash_of(history[c].output)
  /\ JustLoaded =>
       \A i \in DOMAIN inference_store :
         \E c \in InferInserts :
           /\ history[c].after.state = "json"
           /\ inference_store[i].output_hash = output_hash_of(history[c].output)

\* An entry whose response has a parameter was written and loaded back.
C23_Witness ==
  /\ JustLoaded
  /\ inference_store # <<>>
  /\ \E c \in InferInserts :
       /\ history[c].ok
       /\ DOMAIN history[c].output.parameters = {"p"}
       /\ inference_store[1].output_hash = output_hash_of(history[c].output)
       /\ HexSlice(history[c].path, 40, 56) = metadata_hash(history[c].input)


\* C24: a task whose upstream call is outstanding holds no guard of its
\* store's lock, and a task that holds the write guard has its upstream
\* reply.
C24_NoLockAcrossUpstream ==
  \A t \in Tasks :
    /\ tasks[t].pc = "upstream" => tasks[t].guard = ""
    /\ tasks[t].guard = "write" =>
         /\ tasks[t].pc = "push"
         /\ tasks[t].response # NoValue
    /\ tasks[t].guard = "read" => tasks[t].pc = "find"

\* A task waits for its upstream call, having scanned under the read
\* guard, while the other holds the write guard of the same store.
C24_Witness ==
  \E t \in Tasks, u \in Tasks :
    /\ tasks[t].pc = "upstream"
    /\ tasks[t].guard = ""
    /\ tasks[u].kind = tasks[t].kind
    /\ tasks[u].guard = "write"


\* The store of a kind changes in a step only by one entry appended by the
\* task that holds its write guard, the only holder of a guard of it.
AppendedUnderWriteGuard(kind, before, after) ==
  /\ IsPrefix(before, after)
  /\ after # before =>
       \E t \in Tasks :
         /\ Holders(kind, {"read", "write"}) = {t}
         /\ tasks[t].guard = "write"
         /\ after = Append(before, new_entry(kind, tasks[t].request, tasks[t].response))

\* C25: each in-memory sequence is a prefix of what it is after any step
\* (nothing is removed, reordered or changed), and it grows only by the
\* push of the one task holding the write guard, while no task reads.
C25_AppendOnly ==
  [][ /\ AppendedUnderWriteGuard("infer", inference_store, inference_store')
      /\ AppendedUnderWriteGuard("config", config_store, config_store') ]_vars

\* Two concurrent ModelInfer calls have both pushed: the entry of the
\* first to return is first in the sequence.
C25_Witness ==
  /\ Len(history) = 2
  /\ Len(inference_store) = 2
  /\ history[2].started = 0
  /\ \A c \in Calls :
       /\ history[c].stored = "Ok"
       /\ inference_store[c] = new_entry("infer", history[c].request, history[c].response)


\* The entries of a wire map as a set.
EntrySet(entries) == {entries[i] : i \in DOMAIN entries}

\* Two requests are equal except for the order of the entries of their
\* parameter maps.
EqualUpToOrder(first, second) ==
  /\ [first EXCEPT !.parameters = <<>>, !.inputs = <<>>, !.outputs = <<>>]
       = [second EXCEPT !.parameters = <<>>, !.inputs = <<>>, !.outputs = <<>>]
  /\ EntrySet(first.parameters) = EntrySet(second.parameters)
  /\ DOMAIN first.inputs = DOMAIN second.inputs
  /\ \A i \in DOMAIN first.inputs :
       /\ [first.inputs[i] EXCEPT !.parameters = <<>>]
            = [second.inputs[i] EXCEPT !.parameters = <<>>]
       /\ EntrySet(first.inputs[i].parameters) = EntrySet(second.inputs[i].parameters)
  /\ DOMAIN first.outputs = DOMAIN second.outputs
  /\ \A i \in DOMAIN first.outputs :
       /\ first.outputs[i].name = second.outputs[i].name
       /\ EntrySet(first.outputs[i].parameters) = EntrySet(second.outputs[i].parameters)

\* C26: two requests equal except for the order of their parameter maps
\* have equal fingerprints and, with the same response, equal file names.
C26_CanonicalParameterOrder ==
  ( /\ history # <<>>
    /\ EqualUpToOrder(history[1].first, history[1].second) ) =>
  /\ history[1].one = history[1].other
  /\ history[1].one_name = history[1].other_name

\* Two requests whose three parameter maps each hold two entries in
\* opposite orders were fingerprinted.
C26_Witness ==
  /\ history # <<>>
  /\ EqualUpToOrder(history[1].first, history[1].second)
  /\ Len(history[1].first.parameters) = 2
  /\ history[1].first.parameters # history[1].second.parameters
  /\ history[1].first.inputs[1].parameters # history[1].second.inputs[1].parameters
  /\ Len(history[1].first.inputs[1].parameters) = 2
  /\ history[1].first.outputs[1].parameters # history[1].second.outputs[1].parameters
  /\ Len(history[1].first.outputs[1].parameters) = 2
  /\ history[1].one_name = history[1].other_name


\* C27: a fingerprint matches itself under every policy.
C27_MatchReflexive ==
  (history # <<>> /\ history[1].self = history[1].other) => history[1].result

\* Under the default policy, the fingerprint of a request whose parameter
\* k is a double that is not a number has not matched itself.
C27_Witness ==
  /\ history # <<>>
  /\ request_matching = RequestMatching(FALSE, "Disable", <<>>)
  /\ history[1].self = history[1].other
  /\ history[1].self.parameters = [k \in {"k"} |-> DoubleParam("NaN")]
  /\ ~ history[1].result


\* C28: fingerprints that differ in model name, model version or content
\* hash do not match, whatever the policy.
C28_IdentityMustBeEqual ==
  ( /\ history # <<>>
    /\ \/ history[1].self.model_name # history[1].other.model_name
       \/ history[1].self.model_version # history[1].other.model_version
       \/ history[1].self.content_hash # history[1].other.content_hash ) =>
  ~ history[1].result

\* Under MatchKeys without keys, which compares no parameter, fingerprints
\* that differ in the content hash alone have not matched.
C28_Witness ==
  /\ history # <<>>
  /\ request_matching = RequestMatching(FALSE, "MatchKeys", <<>>)
  /\ history[1].self.content_hash # history[1].other.content_hash
  /\ [history[1].self EXCEPT !.content_hash = <<>>]
       = [history[1].other EXCEPT !.content_hash = <<>>]
  /\ ~ history[1].result


\* The fingerprints of the step are equal but for their top-level
\* parameters.
TopLevelOnly ==
  /\ history # <<>>
  /\ [history[1].self EXCEPT !.parameters = <<>>]
       = [history[1].other EXCEPT !.parameters = <<>>]

\* The fingerprints of the step are equal but for the parameters of their
\* one requested output.
OutputLevelOnly ==
  /\ history # <<>>
  /\ Len(history[1].self.outputs) = 1
  /\ Len(history[1].other.outputs) = 1
  /\ [history[1].self EXCEPT !.outputs[1].parameters = <<>>]
       = [history[1].other EXCEPT !.outputs[1].parameters = <<>>]

\* For every listed key both maps hold an equal value or both lack it.
AgreeOnKeys(m1, m2, keys) ==
  \A k \in SeqToSet(keys) :
    \/ k \notin DOMAIN m1 /\ k \notin DOMAIN m2
    \/ k \in DOMAIN m1 /\ k \in DOMAIN m2 /\ parameter_eq(m1[k], m2[k])

\* C29: under MatchKeys, fingerprints that differ in one parameter map
\* only (top-level, or of the requested output) match exactly when the
\* maps agree on every configured key.
C29_MatchKeys ==
  /\ (TopLevelOnly /\ request_matching.parameter_matching = "MatchKeys") =>
       ( history[1].result <=>
           AgreeOnKeys(history[1].self.parameters, history[1].other.parameters,
                       request_matching.parameter_keys) )
  /\ (OutputLevelOnly /\ request_matching.output_parameter_matching = "MatchKeys") =>
       ( history[1].result <=>
           AgreeOnKeys(history[1].self.outputs[1].parameters,
                       history[1].other.outputs[1].parameters,
                       KeysFor(request_matching.output_parameter_keys, "o")) )

\* Under MatchKeys with key k for output o, output parameters that agree
\* on k and differ in p have matched.
C29_Witness ==
  /\ OutputLevelOnly
  /\ request_matching.output_parameter_matching = "MatchKeys"
  /\ KeysFor(request_matching.output_parameter_keys, "o") = <<"k">>
  /\ DOMAIN history[1].self.outputs[1].parameters = {"k"}
  /\ DOMAIN history[1].other.outputs[1].parameters = {"k", "p"}
  /\ history[1].result


\* The maps are equal once the listed keys are removed from both.
EqualWithout(m1, m2, keys) ==
  /\ DOMAIN m1 \ SeqToSet(keys) = DOMAIN m2 \ SeqToSet(keys)
  /\ \A k \in DOMAIN m1 \ SeqToSet(keys) : parameter_eq(m1[k], m2[k])

\* Some parameter is in one of the maps and absent from or different in
\* the other.
SomeParameterDiffers(m1, m2) ==
  \E k \in DOMAIN m1 \cup DOMAIN m2 :
    \/ k \notin DOMAIN m1
    \/ k \notin DOMAIN m2
    \/ m1[k] # m2[k]

\* C30: under IgnoreKeys, fingerprints that differ in one parameter map
\* only (top-level, or of the requested output) match exactly when the
\* maps are equal once the configured keys are removed from both; under the
\* default MatchConfig any differing parameter is a mismatch.
C30_IgnoreKeys ==
  /\ (TopLevelOnly /\ request_matching.parameter_matching = "IgnoreKeys") =>
       ( history[1].result <=>
           EqualWithout(history[1].self.parameters, history[1].other.parameters,
                        request_matching.parameter_keys) )
  /\ (OutputLevelOnly /\ request_matching.output_parameter_matching = "IgnoreKeys") =>
       ( history[1].result <=>
           EqualWithout(history[1].self.outputs[1].parameters,
                        history[1].other.outputs[1].parameters,
                        KeysFor(request_matching.output_parameter_keys, "o")) )
  /\ ( /\ history # <<>>
       /\ get_match_config(request_matching) = DefaultMatchConfig
       /\ \/ SomeParameterDiffers(history[1].self.parameters,
                                   history[1].other.parameters)
          \/ \E i \in DOMAIN history[1].self.outputs \cap DOMAIN history[1].other.outputs :
               SomeParameterDiffers(history[1].self.outputs[i].parameters,
                                    history[1].other.outputs[i].parameters) )
       => ~ history[1].result

\* Under IgnoreKeys with key k, top-level parameters that differ in k alone
\* have matched.
C30_Witness ==
  /\ TopLevelOnly
  /\ request_matching.parameter_matching = "IgnoreKeys"
  /\ request_matching.parameter_keys = <<"k">>
  /\ "k" \in DOMAIN history[1].self.parameters
  /\ "k" \in DOMAIN history[1].other.parameters
  /\ history[1].self.parameters["k"] # history[1].other.parameters["k"]
  /\ history[1].result


\* Some tensor of the first list has no tensor of its name in the second.
NameAbsent(tensors, others) ==
  \E i \in DOMAIN tensors :
    \A j \in DOMAIN others : others[j].name # tensors[i].name

\* Some tensor of the first list has a tensor of its name in the second
\* with another datatype or shape.
TypeOrShapeDiffers(tensors, others) ==
  \E i \in DOMAIN tensors : \E j \in DOMAIN others :
    /\ others[j].name = tensors[i].name
    /\ \/ others[j].datatype # tensors[i].datatype
       \/ others[j].shape # tensors[i].shape

\* C31: an entry does not match a request that lacks one of the entry's
\* input tensor names, has it with another datatype or shape, or lacks one
\* of the entry's output tensor names; the order of the tensors is of no
\* account.
C31_TensorMatching ==
  /\ ( /\ history # <<>>
       /\ \/ NameAbsent(history[1].self.inputs, history[1].other.inputs)
          \/ TypeOrShapeDiffers(history[1].self.inputs, history[1].other.inputs)
          \/ NameAbsent(history[1].self.outputs, history[1].other.outputs) )
       => ~ history[1].result
  /\ ( /\ history # <<>>
       /\ history[1].self.parameters = <<>>
       /\ SeqToSet(history[1].self.inputs) = SeqToSet(history[1].other.inputs)
       /\ SeqToSet(history[1].self.outputs) = SeqToSet(history[1].other.outputs)
       /\ [history[1].self EXCEPT !.inputs = <<>>, !.outputs = <<>>]
            = [history[1].other EXCEPT !.inputs = <<>>, !.outputs = <<>>] )
       => history[1].result

\* Under a policy that compares no parameter, fingerprints that differ in
\* the datatype of their input tensor alone have not matched.
C31_Witness ==
  /\ history # <<>>
  /\ request_matching = RequestMatching(FALSE, "MatchKeys", <<>>)
  /\ Len(history[1].self.inputs) = 1
  /\ Len(history[1].other.inputs) = 1
  /\ history[1].self.inputs[1].datatype # history[1].other.inputs[1].datatype
  /\ [history[1].self EXCEPT !.inputs[1].datatype = ""]
       = [history[1].other EXCEPT !.inputs[1].datatype = ""]
  /\ ~ history[1].result


\* The first fingerprint has the top-level parameters {j: absent}, the
\* second has none, and they are equal otherwise.
AbsentAgainstNone ==
  /\ history # <<>>
  /\ DOMAIN history[1].one.parameters = {"j"}
  /\ history[1].one.parameters["j"] = NoParam
  /\ DOMAIN history[1].other.parameters = {}
  /\ [history[1].one EXCEPT !.parameters = <<>>]
       = [history[1].other EXCEPT !.parameters = <<>>]

\* C32: a fingerprint with parameters {j: absent} and one with parameters
\* {} get the same metadata hash.
C32_AbsentHashesAsNone ==
  AbsentAgainstNone =>
    metadata_hash(history[1].one) = metadata_hash(history[1].other)

\* C32, amended: a parameter without a value feeds its key and no value
\* bytes, so {j: absent} and {} get different metadata hashes and file
\* names.
C32_AbsentFeedsItsKey ==
  AbsentAgainstNone =>
    /\ metadata_hash(history[1].one) # metadata_hash(history[1].other)
    /\ Len(metadata_hash(history[1].one))
         = Len(metadata_hash(history[1].other)) + Len(Utf8("j"))
    /\ history[1].one_name # history[1].other_name

\* A request with the parameter j without a value and one without
\* parameters, equal otherwise, were fingerprinted.
C32_Witness ==
  /\ AbsentAgainstNone
  /\ history[1].first.parameters = <<Entry("j", NoParam)>>
  /\ history[1].second.parameters = <<>>


\* Call c is a ModelInfer call whose find_output met matching entries and
\* could read the output of none.
UnreadableHit(c) ==
  /\ history[c].kind = "infer"
  /\ ~ history[c].found.found
  /\ history[c].found.unreadable # {}

\* C33: in Collect mode a ModelInfer call whose matching entries are all
\* unreadable goes upstream and, when upstream answers and no write meets an
\* I/O error, returns the upstream response.
C33_UnreadableHitIsMiss ==
  \A c \in Calls :
    UnreadableHit(c) =>
      /\ history[c].upstream
      /\ (UpstreamAnswered(c) /\ history[c].stored # "Io") =>
           history[c].result = Ok(ResponseValue(history[c].response))

\* The file of the only matching entry was overwritten with bytes that do
\* not parse; the call went upstream, got the response the entry was stored
\* with, and returned a status.
C33_Witness ==
  \E c \in Calls :
    /\ UnreadableHit(c)
    /\ UpstreamAnswered(c)
    /\ history[c].stored = "AlreadyExists"
    /\ \E i \in history[c].found.unreadable :
         /\ inference_store[i].input = from_infer_request(history[c].request)
         /\ inference_store[i].output_hash
              = output_hash_of(from_response(history[c].response))
         /\ T_file_name("infer", inference_store[i]) \in DOMAIN dir.infer
         /\ dir.infer[T_file_name("infer", inference_store[i])] = PartialBody
    /\ history[c].result = Err("Unknown")


\* C34: at most 4 responses are queued, and while 4 are queued and the
\* consumer takes none the worker stands at its send and makes no lookup,
\* upstream call or insert.
C34_BoundedChannel ==
  [][ /\ Len(channel) <= 4
      /\ Len(channel') <= 4
      /\ (Len(channel) = 4 /\ channel' = channel) =>
           /\ worker.pc = "send"
           /\ UNCHANGED << worker, dir, inference_store, upstream_calls >> ]_vars

\* C34, amended: at most 4 responses are queued; the worker is never more
\* than one message ahead of the responses it has sent; and a worker at its
\* send while 4 are queued stays there, without a lookup, upstream call or
\* insert, until the consumer takes a response or goes away.
C34_BlockedAtFifthSend ==
  [][ /\ Len(channel) <= 4
      /\ Len(channel') <= 4
      /\ rx_open => worker.taken <= Len(delivered) + Len(channel) + 1
      /\ (Len(channel) = 4 /\ worker.pc = "send" /\ channel' = channel) =>
           UNCHANGED << worker, dir, inference_store, upstream_calls >> ]_vars

\* Four responses are queued and the worker stands at the send of the
\* fifth, which it looked up, got from upstream and stored.
C34_Witness ==
  /\ Len(channel) = 4
  /\ rx_open
  /\ worker.pc = "send"
  /\ worker.taken = 5
  /\ upstream_calls = 5
  /\ Len(inference_store) = 5


\* Task t missed in Collect mode, has a successful upstream response and
\* is in CacheStore::store.
StoringTask(t) ==
  /\ mode = "Collect"
  /\ tasks[t].pc \in {"store", "push"}
  /\ ~ tasks[t].found.found
  /\ tasks[t].upstream
  /\ tasks[t].response \in
       (IF tasks[t].kind = "infer"
        THEN InferResponses(tasks[t].request) ELSE ConfigResponses)

C36_DiskBeforeMemory ==
  /\ \A i \in DOMAIN inference_store :
       T_file_name("infer", inference_store[i]) \in DOMAIN dir.infer
  /\ \A i \in DOMAIN config_store :
       T_file_name("config", config_store[i]) \in DOMAIN dir.config

\* An entry loaded from the file of a request with an unsigned parameter
\* stands for a file that is not in the directory, and a call has met it as
\* a matching entry it could not read.
C36_Witness ==
  /\ \E i \in DOMAIN inference_store :
       /\ T_file_name("infer", inference_store[i]) \notin DOMAIN dir.infer
       /\ "k" \in DOMAIN inference_store[i].input.parameters
       /\ inference_store[i].input.parameters["k"] = Int64Param(1)
       /\ get_file_name([inference_store[i].input EXCEPT
                            !.parameters = [k \in {"k"} |-> Uint64Param(1)]],
                         inference_store[i].output_hash) \in DOMAIN dir.infer
  /\ \E c \in Calls : history[c].found.unreadable # {}


\* C37: once find_output has returned an output for an input, every later
\* find_output for that input returns the same output.
C37_HitStability ==
  \A c \in Calls : \A d \in Calls :
    ( /\ c < d
      /\ history[c].op = "find_output"
      /\ history[d].op = "find_output"
      /\ history[c].input = history[d].input
      /\ history[c].found ) =>
    /\ history[d].found
    /\ history[d].output = history[c].output

\* A find_output returned the output of the second entry while the first,
\* loaded at start-up, could not be read; a store then wrote the file the
\* first entry stands for, and the same find_output returned another
\* output.  The file of the second entry is as it was.
C37_Witness ==
  /\ Len(history) = 4
  /\ history[1].op = "store" /\ history[1].ok
  /\ history[2].op = "find_output" /\ history[2].found
  /\ history[3].op = "store" /\ history[3].ok
  /\ history[4].op = "find_output" /\ history[4].found
  /\ history[4].input = history[2].input
  /\ history[4].output # history[2].output
  /\ Len(inference_store) = 3
  /\ infer_get_output(dir.infer, inference_store[2]).ok
  /\ infer_get_output(dir.infer, inference_store[2]).output = history[2].output


\* The messages the worker has sent or is sending, in the order of the
\* sends, as the positions of the input messages they answer.
Answered ==
  [i \in 1..(Len(delivered) + Len(channel)) |->
     IF i <= Len(delivered) THEN delivered[i].input
     ELSE channel[i - Len(delivered)].input]
    \o (IF worker.pc = "send" THEN <<worker.pending.input>> ELSE <<>>)

\* The worker has returned after a run of messages that all missed, were
\* all answered by upstream and were all stored and sent.
CleanRun ==
  /\ mode = "Collect"
  /\ worker.pc = "done"
  /\ worker.failed = ""
  /\ worker.send_failed = 0
  /\ upstream_calls = worker.taken

C39_Progress ==
  /\ \A t \in Tasks : (tasks[t].pc # "idle") ~> (tasks[t].pc = "idle")
  /\ [](\A c \in Calls : history[c].result # Panicked)

\* Two concurrent ModelConfig calls got the same configuration from
\* upstream; the second to store met the file of the first and its handler
\* panicked.
C39_Witness ==
  \E c \in Calls :
    /\ history[c].kind = "config"
    /\ history[c].upstream
    /\ history[c].stored = "AlreadyExists"
    /\ history[c].result = Panicked
    /\ \A t \in Tasks : tasks[t].pc = "idle" /\ tasks[t].guard = ""

=============================================================================
